---- MODULE Spec2Model ----
(***************************************************************************)
(* WebDbReader: the safety gate (validateSelectQuery), the bounded query   *)
(* and CSV export handlers (handleQuery, handleExportCSV) and the schema   *)
(* cache (schema.Cache: Load and its readers), and the generation path     *)
(* (handleGenerateSQL, the llm backends and llm.ParseResponse).            *)
(*                                                                         *)
(* Seven specifications share the module:                                  *)
(*   SpecGate   validateSelectQuery applied to every text of Queries       *)
(*   Spec       one request after another through handleQuery and          *)
(*              handleExportCSV against a database whose cursor may fail   *)
(*   SpecCache  concurrent Load calls and reader calls on one schema.Cache *)
(*   SpecGen    one request after another through handleGenerateSQL, with  *)
(*              either backend of package llm or another llm.Provider      *)
(*   SpecNewDb  SpecCache against a database that has no table at first    *)
(*   SpecOrder  concurrent Load calls, each recording the calls it follows *)
(*   SpecSchema one request after another through handleSchema and         *)
(*              handleSchemaRefresh, with concurrent Load calls            *)
(*                                                                         *)
(* A query text is a sequence of one-character strings, so that trimming,  *)
(* lower-casing and prefix tests are computed character by character.      *)
(***************************************************************************)
EXTENDS Integers, Sequences, FiniteSets, TLC

VARIABLES
    \* --- SpecGate
    gateIn,       \* the raw text handed to validateSelectQuery
    gateOut,      \* its result [query, err], or NotRun
    \* --- Spec (request handlers)
    hpc,          \* position of the handler: idle, dispatch, loop, done
    req,          \* the decoded request [kind, Query, Limit]
    query,        \* handler local: the gate's cleaned text
    gateErr,      \* handler local: the gate's error (nil when accepted)
    limit,        \* handler local: clampLimit(req.Limit)
    dispatched,   \* texts handed to db.QueryContext by this request, in order
    cursor,       \* the *sql.Rows of this request [state, n, pos]
    fault,        \* which failure the database or the writer injected, if any
    resp,         \* handler local: the queryResponse being built
    csv,          \* records handed to the csv.Writer, in order
    written,      \* responses written to the http.ResponseWriter, in order
    \* --- SpecCache (schema.Cache)
    heap,         \* backing arrays of the Columns and ForeignKeys slices, by address
    cTables,      \* c.Tables: Table structs holding slice addresses
    cLastRefresh, \* c.LastRefresh (0 is the zero time)
    mu,           \* c.mu [writer, readers, waiting]
    clock,        \* the wall clock read by time.Now()
    loads,        \* Load calls started so far
    lpc,          \* position of each Load call
    lloc,         \* locals of each Load call
    rpc,          \* position of each reader call
    rloc,         \* locals and result of each reader call
    published,    \* history: the snapshots written to c.Tables, in order
    \* --- SpecGen (handleGenerateSQL)
    gpc,          \* position of the handler: idle, call, respond, done
    gProvider,    \* a.llm: none (nil), openai, anthropic, or another implementation
    gReq,         \* the decoded request and the llm.GenerateRequest built from it
    gCalls,       \* GenerateSQL calls made by this request
    gOut,         \* what GenerateSQL returned [raw, resp, err]
    gGated,       \* texts handed to validateSelectQuery by this request, in order
    gWritten,     \* responses written to the http.ResponseWriter, in order
    \* --- SpecSchema (handleSchema, handleSchemaRefresh)
    sh            \* the request in hand: position, Load call, schemaResponse

gateVars == <<gateIn, gateOut>>
cacheVars ==
    <<heap, cTables, cLastRefresh, mu, clock, loads, lpc, lloc, rpc, rloc, published>>
handlerVars ==
    <<hpc, req, query, gateErr, limit, dispatched, cursor, fault, resp, csv, written>>
genVars == <<gpc, gProvider, gReq, gCalls, gOut, gGated, gWritten>>
schemaVars == <<sh>>

-----------------------------------------------------------------------------
(* Bounds *)

\* longest run of whitespace put before and after a query text
MaxPad == 1
\* most rows a cursor holds
MaxRows == 3
\* largest elapsed time, in ms, a request measures
MaxElapsedMs == 1
\* most Load calls started
MaxLoads == 2

(* Program constants *)
defaultLimit == 200
maxLimit == 1000

nil == "nil"
NotRun == [query |-> <<>>, err |-> "not run"]

-----------------------------------------------------------------------------
(* Text *)

\* the characters strings.TrimSpace strips that the inputs contain
WhiteSpace == {" ", "\n"}

LowerOf(c) ==
    CASE c = "S" -> "s" [] c = "E" -> "e" [] c = "L" -> "l" [] c = "C" -> "c"
      [] c = "T" -> "t" [] c = "W" -> "w" [] c = "I" -> "i" [] c = "H" -> "h"
      [] c = "D" -> "d" [] c = "R" -> "r" [] c = "O" -> "o" [] c = "P" -> "p"
      [] c = "N" -> "n" [] c = "U" -> "u" [] c = "M" -> "m" [] c = "G" -> "g"
      [] c = "Q" -> "q" [] c = "X" -> "x"
      [] OTHER -> c

ToLower(s) == [i \in 1..Len(s) |-> LowerOf(s[i])]

RECURSIVE TrimLeft(_)
TrimLeft(s) ==
    IF s # <<>> /\ Head(s) \in WhiteSpace THEN TrimLeft(Tail(s)) ELSE s

RECURSIVE TrimRight(_)
TrimRight(s) ==
    IF s # <<>> /\ s[Len(s)] \in WhiteSpace
    THEN TrimRight(SubSeq(s, 1, Len(s) - 1))
    ELSE s

TrimSpace(s) == TrimRight(TrimLeft(s))

HasPrefix(s, prefix) ==
    Len(s) >= Len(prefix) /\ SubSeq(s, 1, Len(prefix)) = prefix

kwSelect == <<"s", "e", "l", "e", "c", "t">>
kwWith == <<"w", "i", "t", "h">>

errEmptyQuery == "query is required"
errNotSelectQuery == "only SELECT / CTE queries are allowed"

\* a keyword test: the text is the keyword, or the keyword ends at a character
\* that is neither a letter nor a digit
IsKeywordAt(lower, kw) ==
    /\ HasPrefix(lower, kw)
    /\ Len(lower) > Len(kw) => lower[Len(kw) + 1] \in {" ", "\n", "*", ";", "(", "-"}
IsReadOnlyWholeWord(lower) == IsKeywordAt(lower, kwSelect) \/ IsKeywordAt(lower, kwWith)

\* the read-only test of validateSelectQuery, on the lower-cased trimmed text
IsReadOnly(lower) == HasPrefix(lower, kwSelect) \/ HasPrefix(lower, kwWith)

\* validateSelectQuery returning the text as it came
validateUntrimmed(raw) ==
    LET q == TrimSpace(raw)
    IN  IF q = <<>>
        THEN [query |-> <<>>, err |-> errEmptyQuery]
        ELSE IF ~IsReadOnly(ToLower(q))
             THEN [query |-> <<>>, err |-> errNotSelectQuery]
             ELSE [query |-> raw, err |-> nil]

validateSelectQuery(raw) ==
    LET q == TrimSpace(raw)
    IN  IF q = <<>>
        THEN [query |-> <<>>, err |-> errEmptyQuery]
        ELSE IF ~IsReadOnly(ToLower(q))
             THEN [query |-> <<>>, err |-> errNotSelectQuery]
             ELSE [query |-> q, err |-> nil]

-----------------------------------------------------------------------------
(* Inputs of the gate *)

RECURSIVE SeqsUpTo(_, _)
SeqsUpTo(S, n) ==
    IF n = 0 THEN {<<>>}
    ELSE LET shorter == SeqsUpTo(S, n - 1)
         IN  shorter \cup {Append(s, c) : s \in shorter, c \in S}

Pads == SeqsUpTo(WhiteSpace, MaxPad)

Words == {
    <<>>,
    <<"s", "e", "l", "e", "c", "t">>,
    <<"S", "E", "L", "E", "C", "T">>,
    <<"S", "e", "L", "e", "c", "T">>,
    <<"w", "i", "t", "h">>,
    <<"W", "I", "T", "H">>,
    <<"W", "i", "t", "H">>,
    <<"s", "e", "l", "e", "c", "t", "i", "o", "n">>,
    <<"w", "i", "t", "h", "o", "u", "t">>,
    <<"S", "E", "L", "E", "C", "T", "1">>,
    <<"s", "e", "l">>,
    <<"w", "i", "t">>,
    <<"s", "e", "l", "e", "c", "d">>,
    <<"d", "r", "o", "p">>,
    <<"D", "R", "O", "P">>,
    <<"(", "s", "e", "l", "e", "c", "t">>,
    <<"-", "-", "s", "e", "l", "e", "c", "t">>
}

Rests == {
    <<>>,
    <<" ", "1">>,
    <<"\n", "*", " ", " ", "t">>,
    <<";", "d", "r", "o", "p">>,
    <<" ", "s", "e", "l", "e", "c", "t">>
}

Queries == {a \o w \o r \o b : a \in Pads, w \in Words, r \in Rests, b \in Pads}

-----------------------------------------------------------------------------
(* SpecGate: validateSelectQuery on every text of Queries *)

InitGate ==
    /\ gateIn \in Queries
    /\ gateOut = NotRun

\* the gate's variables when another specification runs
GateIdle ==
    /\ gateIn = <<>>
    /\ gateOut = NotRun

Validate ==
    /\ gateOut = NotRun
    /\ gateOut' = validateSelectQuery(gateIn)
    /\ UNCHANGED gateIn
    /\ UNCHANGED <<handlerVars, cacheVars, genVars, schemaVars>>

-----------------------------------------------------------------------------
(* Rows and their normalization *)

Columns == <<"id", "v">>

\* what the driver scans for row i: an int64 and, in turn, nil, []byte,
\* time.Time and string
NativeCell(i) ==
    CASE i % 4 = 1 -> [t |-> "nil", v |-> "", ns |-> ""]
      [] i % 4 = 2 -> [t |-> "bytes", v |-> "b" \o ToString(i), ns |-> ""]
      [] i % 4 = 3 -> [t |-> "time", v |-> "2025-01-01T00:00:0" \o ToString(i),
                       ns |-> "00000000" \o ToString(i)]
      [] OTHER -> [t |-> "string", v |-> "s" \o ToString(i), ns |-> ""]

NativeRow(i) == <<[t |-> "int64", v |-> ToString(i), ns |-> ""], NativeCell(i)>>

FormatRFC3339(c) == c.v \o "Z"
FormatRFC3339Nano(c) == c.v \o "." \o c.ns \o "Z"

normalizeValue(c) ==
    CASE c.t = "nil" -> [t |-> "null", v |-> "", ns |-> ""]
      [] c.t = "bytes" -> [t |-> "string", v |-> c.v, ns |-> ""]
      [] c.t = "time" -> [t |-> "string", v |-> FormatRFC3339Nano(c), ns |-> ""]
      [] OTHER -> c

normalizeRow(values) == [i \in 1..Len(values) |-> normalizeValue(values[i])]

formatCSVValue(c) ==
    CASE c.t = "nil" -> ""
      [] c.t = "bytes" -> c.v
      [] c.t = "time" -> FormatRFC3339(c)
      [] OTHER -> c.v

csvRecord(values) == [i \in 1..Len(Columns) |-> formatCSVValue(values[i])]

-----------------------------------------------------------------------------
(* The request handlers *)

\* a clamp without the default
clampLimitNoDefault(l) == IF l > maxLimit THEN maxLimit ELSE l

\* main.go:353-361
clampLimit(l) ==
    IF l <= 0 THEN defaultLimit
    ELSE IF l > maxLimit THEN maxLimit
    ELSE l

\* a handler that drops the gate's error
GateRejectsNever(err) == FALSE

\* handleQuery's and handleExportCSV's test of the gate's verdict
GateRejects(err) == err # nil

\* the limit test off by one
LimitReachedOffByOne(rows, lim) == Len(rows) > lim

\* handleQuery's test at the head of each loop iteration
LimitReached(rows, lim) == Len(rows) >= lim

HandlerQueries == {
    <<>>,
    <<" ", "\n">>,
    <<" ", "S", "e", "l", "e", "c", "t", " ", "1", "\n">>,
    <<"w", "i", "t", "h", " ", "1">>,
    <<"\n", "d", "r", "o", "p", " ", "t">>,
    <<"1", " ", "s", "e", "l", "e", "c", "t">>
}

Limits == (-1 .. MaxRows) \cup {maxLimit, maxLimit + 1}

NoCursor == [state |-> "none", n |-> 0, pos |-> 0]

EmptyResp ==
    [status |-> 0, Error |-> "", Columns |-> <<>>, Rows |-> <<>>, Count |-> 0,
     More |-> FALSE, DurationMs |-> 0, Body |-> <<>>]

\* an error written into the response built so far
ErrorRespPartial(status, msg) == [resp EXCEPT !.status = status, !.Error = msg]

\* queryResponse{Error: msg}, main.go:130-170
ErrorResp(status, msg) == [EmptyResp EXCEPT !.status = status, !.Error = msg]

NoReq == [kind |-> "none", Query |-> <<>>, Limit |-> 0]

InitHandler ==
    /\ hpc = "idle"
    /\ req = NoReq
    /\ query = <<>>
    /\ gateErr = nil
    /\ limit = 0
    /\ dispatched = <<>>
    /\ cursor = NoCursor
    /\ fault = "none"
    /\ resp = EmptyResp
    /\ csv = <<>>
    /\ written = <<>>

\* a Close that leaves the rows open
CloseForgotten(c) == c

\* rows.Close(), main.go:151, 206, 394
Closed(c) == [c EXCEPT !.state = "closed"]

\* the rows db.QueryContext returned, main.go:387
Opened(n) == [state |-> "open", n |-> n, pos |-> 0]

\* the handler returns having written r; its deferred rows.Close() has run
Return(r) ==
    /\ written' = Append(written, r)
    /\ cursor' = IF cursor.state = "open" THEN Closed(cursor) ELSE cursor
    /\ hpc' = "done"

\* main.go:127-140. Decode the body, run the gate, clamp the limit.
HandleQueryBegin ==
    /\ hpc = "idle"
    /\ \E decoded \in BOOLEAN, q \in HandlerQueries, l \in Limits :
         IF ~decoded
         THEN /\ req' = [NoReq EXCEPT !.kind = "query"]
              /\ Return(ErrorResp(400, "invalid JSON body"))
              /\ UNCHANGED <<query, gateErr, limit>>
         ELSE LET v == validateSelectQuery(q)
              IN  /\ req' = [kind |-> "query", Query |-> q, Limit |-> l]
                  /\ query' = v.query
                  /\ gateErr' = v.err
                  /\ IF GateRejects(v.err)
                     THEN /\ Return(ErrorResp(400, v.err))
                          /\ UNCHANGED limit
                     ELSE /\ limit' = clampLimit(l)
                          /\ hpc' = "dispatch"
                          /\ UNCHANGED <<written, cursor>>
    /\ UNCHANGED <<dispatched, fault, resp, csv>>
    /\ UNCHANGED <<gateVars, cacheVars, genVars, schemaVars>>

\* main.go:145-155 and executeSelectQuery, main.go:386-399.
HandleQueryDispatch ==
    /\ hpc = "dispatch"
    /\ req.kind = "query"
    /\ dispatched' = Append(dispatched, query)
    /\ \E outcome \in {"ok", "queryErr", "columnsErr"}, n \in 0..MaxRows :
         CASE outcome = "queryErr" ->
                /\ n = 0
                /\ fault' = "query"
                /\ Return(ErrorResp(400, "query failed"))
                /\ UNCHANGED resp
           [] outcome = "columnsErr" ->
                \* executeSelectQuery closes the rows itself
                /\ n = 0
                /\ fault' = "columns"
                /\ written' = Append(written, ErrorResp(400, "columns failed"))
                /\ cursor' = Closed(Opened(0))
                /\ hpc' = "done"
                /\ UNCHANGED resp
           [] OTHER ->
                /\ cursor' = Opened(n)
                /\ resp' = [EmptyResp EXCEPT !.Columns = Columns]
                /\ hpc' = "loop"
                /\ UNCHANGED <<written, fault>>
    /\ UNCHANGED <<req, query, gateErr, limit, csv>>
    /\ UNCHANGED <<gateVars, cacheVars, genVars, schemaVars>>

\* main.go:157-177. One rows.Next(); when it returns false, or at the break,
\* the rows.Err() check and the response.
HandleQueryLoop ==
    /\ hpc = "loop"
    /\ req.kind = "query"
    /\ \E next \in {"row", "end", "iterErr"}, scanned \in BOOLEAN, d \in 0..MaxElapsedMs :
         CASE next = "iterErr" ->
                /\ scanned
                /\ d = 0
                /\ fault' = "iter"
                /\ Return(ErrorResp(500, "rows failed"))
                /\ UNCHANGED resp
           [] next = "end" ->
                /\ scanned
                /\ cursor.pos = cursor.n
                /\ resp' = [resp EXCEPT !.status = 200, !.Count = Len(resp.Rows),
                                        !.DurationMs = d]
                /\ Return(resp')
                /\ UNCHANGED fault
           [] OTHER ->
                /\ cursor.pos < cursor.n
                /\ IF LimitReached(resp.Rows, limit)
                   THEN /\ scanned
                        /\ resp' = [resp EXCEPT !.status = 200, !.More = TRUE,
                                                !.Count = Len(resp.Rows),
                                                !.DurationMs = d]
                        /\ written' = Append(written, resp')
                        /\ cursor' = Closed([cursor EXCEPT !.pos = cursor.pos + 1])
                        /\ hpc' = "done"
                        /\ UNCHANGED fault
                   ELSE IF ~scanned
                   THEN /\ d = 0
                        /\ fault' = "scan"
                        /\ written' = Append(written, ErrorResp(500, "scan failed"))
                        /\ cursor' = Closed([cursor EXCEPT !.pos = cursor.pos + 1])
                        /\ hpc' = "done"
                        /\ UNCHANGED resp
                   ELSE /\ d = 0
                        /\ resp' = [resp EXCEPT !.Rows =
                               Append(resp.Rows, normalizeRow(NativeRow(cursor.pos + 1)))]
                        /\ cursor' = [cursor EXCEPT !.pos = cursor.pos + 1]
                        /\ UNCHANGED <<written, hpc, fault>>
    /\ UNCHANGED <<req, query, gateErr, limit, dispatched, csv>>
    /\ UNCHANGED <<gateVars, cacheVars, genVars, schemaVars>>

\* main.go:183-199. Decode the body and run the gate.
HandleExportBegin ==
    /\ hpc = "idle"
    /\ \E decoded \in BOOLEAN, q \in HandlerQueries :
         IF ~decoded
         THEN /\ req' = [NoReq EXCEPT !.kind = "export"]
              /\ Return(ErrorResp(400, "invalid JSON body"))
              /\ UNCHANGED <<query, gateErr>>
         ELSE LET v == validateSelectQuery(q)
              IN  /\ req' = [kind |-> "export", Query |-> q, Limit |-> 0]
                  /\ query' = v.query
                  /\ gateErr' = v.err
                  /\ IF GateRejects(v.err)
                     THEN Return(ErrorResp(400, v.err))
                     ELSE /\ hpc' = "dispatch"
                          /\ UNCHANGED <<written, cursor>>
    /\ UNCHANGED <<limit, dispatched, fault, resp, csv>>
    /\ UNCHANGED <<gateVars, cacheVars, genVars, schemaVars>>

\* a CSV response that lost its first record
ExportRespNoHeader(records) ==
    [EmptyResp EXCEPT !.status = 200,
                      !.Body = IF records = <<>> THEN <<>> ELSE Tail(records)]

\* the CSV response as the client has it when handleExportCSV returns
ExportResp(records) == [EmptyResp EXCEPT !.status = 200, !.Body = records]

\* main.go:201-216 and executeSelectQuery, main.go:386-399. The header row.
HandleExportDispatch ==
    /\ hpc = "dispatch"
    /\ req.kind = "export"
    /\ dispatched' = Append(dispatched, query)
    /\ \E outcome \in {"ok", "queryErr", "columnsErr", "writeErr"}, n \in 0..MaxRows :
         CASE outcome = "queryErr" ->
                /\ n = 0
                /\ fault' = "query"
                /\ Return(ErrorResp(400, "query failed"))
                /\ UNCHANGED csv
           [] outcome = "columnsErr" ->
                /\ n = 0
                /\ fault' = "columns"
                /\ written' = Append(written, ErrorResp(400, "columns failed"))
                /\ cursor' = Closed(Opened(0))
                /\ hpc' = "done"
                /\ UNCHANGED csv
           [] outcome = "writeErr" ->
                /\ fault' = "write"
                /\ written' = Append(written, ExportResp(csv))
                /\ cursor' = Closed(Opened(n))
                /\ hpc' = "done"
                /\ UNCHANGED csv
           [] OTHER ->
                /\ cursor' = Opened(n)
                /\ csv' = <<Columns>>
                /\ hpc' = "loop"
                /\ UNCHANGED <<written, fault>>
    /\ UNCHANGED <<req, query, gateErr, limit, resp>>
    /\ UNCHANGED <<gateVars, cacheVars, genVars, schemaVars>>

\* main.go:218-231. One rows.Next(), the scan and the record; the handler
\* returns when Next() is false, without a look at rows.Err().
HandleExportLoop ==
    /\ hpc = "loop"
    /\ req.kind = "export"
    /\ \E next \in {"row", "end", "iterErr"}, step \in {"ok", "scanErr", "writeErr"} :
         CASE next = "iterErr" ->
                /\ step = "ok"
                /\ fault' = "iter"
                /\ Return(ExportResp(csv))
                /\ UNCHANGED csv
           [] next = "end" ->
                /\ step = "ok"
                /\ cursor.pos = cursor.n
                /\ Return(ExportResp(csv))
                /\ UNCHANGED <<csv, fault>>
           [] OTHER ->
                /\ cursor.pos < cursor.n
                /\ IF step = "ok"
                   THEN /\ csv' = Append(csv, csvRecord(NativeRow(cursor.pos + 1)))
                        /\ cursor' = [cursor EXCEPT !.pos = cursor.pos + 1]
                        /\ UNCHANGED <<written, hpc, fault>>
                   ELSE /\ fault' = IF step = "scanErr" THEN "scan" ELSE "write"
                        /\ written' = Append(written, ExportResp(csv))
                        /\ cursor' = Closed([cursor EXCEPT !.pos = cursor.pos + 1])
                        /\ hpc' = "done"
                        /\ UNCHANGED csv
    /\ UNCHANGED <<req, query, gateErr, limit, dispatched, resp>>
    /\ UNCHANGED <<gateVars, cacheVars, genVars, schemaVars>>

\* the request is over; the next one starts from fresh locals
NextRequest ==
    /\ hpc = "done"
    /\ hpc' = "idle"
    /\ req' = NoReq
    /\ query' = <<>>
    /\ gateErr' = nil
    /\ limit' = 0
    /\ dispatched' = <<>>
    /\ cursor' = NoCursor
    /\ fault' = "none"
    /\ resp' = EmptyResp
    /\ csv' = <<>>
    /\ written' = <<>>
    /\ UNCHANGED <<gateVars, cacheVars, genVars, schemaVars>>

-----------------------------------------------------------------------------
(* The database's catalog *)

Loaders == {1, 2}
Readers == {1}

NoMap == [k \in {} |-> 0]

Lookup(m, k, default) == IF k \in DOMAIN m THEN m[k] ELSE default

Col(name, type, nullable, comment) ==
    [Name |-> name, Type |-> type, Nullable |-> nullable, IsPK |-> FALSE,
     Comment |-> comment]

FK(column, table, foreignColumn) ==
    [Column |-> column, ForeignTable |-> table, ForeignColumn |-> foreignColumn]

\* what the five introspection queries answer at each version of the catalog:
\* names in table_name order; columns also of relations that are no base
\* table (view z); reltuples as pg_class holds it, -1 when never analyzed
Catalogs == <<
    [names |-> <<"a", "b">>,
     columns |-> ("a" :> <<Col("id", "integer", FALSE, ""), Col("x", "text", TRUE, "note")>>)
              @@ ("b" :> <<Col("id", "integer", FALSE, ""), Col("a_id", "integer", TRUE, "")>>),
     pks |-> ("a" :> <<"id">>) @@ ("b" :> <<"id">>),
     fks |-> ("b" :> <<FK("a_id", "a", "id")>>),
     est |-> ("a" :> 5) @@ ("b" :> -1)],
    [names |-> <<"a">>,
     columns |-> ("a" :> <<Col("id", "integer", FALSE, ""), Col("y", "text", FALSE, "")>>)
              @@ ("z" :> <<Col("id", "integer", TRUE, "")>>),
     pks |-> ("a" :> <<"id", "y">>),
     fks |-> NoMap,
     est |-> ("a" :> 7)]
>>

\* the catalog of a database without relations: every query answers no rows
EmptyCatalog ==
    [names |-> <<>>, columns |-> NoMap, pks |-> NoMap, fks |-> NoMap, est |-> NoMap]

\* the catalog's versions, oldest first; version 0 is the database before its
\* first relation was created
Versions == 1..Len(Catalogs)
NewDbVersions == {0, 1}
Catalog(v) == IF v = 0 THEN EmptyCatalog ELSE Catalogs[v]

-----------------------------------------------------------------------------
(* schema.Cache *)

NilSlice == <<0, "nil", "">>

\* the address of the array a Load call allocates for one table's slice
SharedAddr(id, kind, name) == <<0, kind, name>>
NewAddr(id, kind, name) == <<id, kind, name>>

Deref(h, a) == IF a = NilSlice THEN <<>> ELSE h[a]

ZeroTable ==
    [Name |-> "", Columns |-> NilSlice, ForeignKeys |-> NilSlice, RowEstimate |-> 0]

\* a table sequence with every slice replaced by the array it points to
Deep(h, tables) ==
    [i \in 1..Len(tables) |->
        [Name |-> tables[i].Name,
         Columns |-> Deref(h, tables[i].Columns),
         ForeignKeys |-> Deref(h, tables[i].ForeignKeys),
         RowEstimate |-> tables[i].RowEstimate]]

\* sync.RWMutex: the goroutine inside Lock, the goroutines inside RLock, and
\* the goroutines blocked in a Lock call, which keep new readers out
NoProc == 0
LockAlways(m) == TRUE
CanLock(m) == m.writer = NoProc /\ m.readers = {}
RLockAlways(m) == TRUE
CanRLock(m) == m.writer = NoProc /\ m.waiting = {}
UnlockForgotten(m) == m
Unlocked(m) == [m EXCEPT !.writer = NoProc]

\* Load's test of loadTables' error
LoadFailedNever(err) == FALSE
LoadFailed(err) == err # nil

\* the error loadTables returns when getRowEstimates failed with err
EstimateErrorReturned(err) == err
EstimateErrorAbsorbed(err) == nil

\* an estimate stored as pg_class holds it
ClampEstimateNever(count) == count

\* getRowEstimates' clamp of a reltuples value
ClampEstimate(count) == IF count < 0 THEN 0 ELSE count

\* after is history: the calls that had run their last introspection query
\* when this one was made, recorded only where the order of calls is followed
IdleLoad ==
    [id |-> 0, after |-> {}, tables |-> <<>>, failed |-> "none", err |-> nil, ret |-> nil]

IdleRead == [op |-> "none", n |-> 0, result |-> <<>>, deep |-> <<>>]

InitCache ==
    /\ heap = NoMap
    /\ cTables = <<>>
    /\ cLastRefresh = 0
    /\ mu = [writer |-> NoProc, readers |-> {}, waiting |-> {}]
    /\ clock = 0
    /\ loads = 0
    /\ lpc = [l \in Loaders |-> "idle"]
    /\ lloc = [l \in Loaders |-> IdleLoad]
    /\ rpc = [r \in Readers |-> "idle"]
    /\ rloc = [r \in Readers |-> IdleRead]
    /\ published = <<[by |-> 0, tables |-> <<>>, deep |-> <<>>, at |-> 0]>>

\* Load calls are interchangeable: a new call takes the first idle loader
FirstIdle(l) == \A k \in Loaders : lpc[k] = "idle" => l <= k

\* the Load calls in hand that have run their last introspection query
Introspected ==
    {lloc[k].id : k \in {j \in Loaders :
        lpc[j] \in {"lock", "setTables", "setTime", "unlock", "returned"}}}

\* schema.go:50-51. Load is called.
LoadCalled(l, after) ==
    /\ lpc[l] = "idle"
    /\ FirstIdle(l)
    /\ loads < MaxLoads
    /\ loads' = loads + 1
    /\ lloc' = [lloc EXCEPT ![l] = [IdleLoad EXCEPT !.id = loads + 1,
                                                   !.after = after]]
    /\ lpc' = [lpc EXCEPT ![l] = "introspect"]
    /\ UNCHANGED <<heap, cTables, cLastRefresh, mu, clock, rpc, rloc, published>>
    /\ UNCHANGED <<gateVars, handlerVars, genVars, schemaVars>>

LoadBegin(l) == LoadCalled(l, {})

\* Load is called, and the calls it comes after are recorded
LoadBeginAfter(l) == LoadCalled(l, Introspected)

\* the five introspection queries, each answering from the catalog as it is
\* when the query runs (version v)
getTableNames(v) == Catalog(v).names
getColumns(v) == Catalog(v).columns
getPrimaryKeys(v) == Catalog(v).pks
getForeignKeys(v) == Catalog(v).fks
getRowEstimates(v) ==
    LET est == Catalog(v).est IN [n \in DOMAIN est |-> ClampEstimate(est[n])]

\* an assembly without the primary-key marking
MarkPrimaryKeysNever(cols, pkCols) == cols

\* the columns array of one table after the primary-key marking, schema.go:196-205
MarkPrimaryKeys(cols, pkCols) ==
    [i \in 1..Len(cols) |->
        IF \E k \in 1..Len(pkCols) : pkCols[k] = cols[i].Name
        THEN [cols[i] EXCEPT !.IsPK = TRUE]
        ELSE cols[i]]

\* schema.go:187-208. The table structs of call id, in table-name order, each
\* holding the addresses of the arrays getColumns and getForeignKeys built.
AssembleTables(id, names, columns, fks, est) ==
    [i \in 1..Len(names) |->
        [Name |-> names[i],
         Columns |-> IF names[i] \in DOMAIN columns
                     THEN NewAddr(id, "cols", names[i]) ELSE NilSlice,
         ForeignKeys |-> IF names[i] \in DOMAIN fks
                         THEN NewAddr(id, "fks", names[i]) ELSE NilSlice,
         RowEstimate |-> Lookup(est, names[i], 0)]]

\* the arrays call id leaves on the heap: one per key of the columns map and
\* of the foreign-keys map; the marking (schema.go:196-205) has written
\* through the Columns slice of every table of names
ArraysOf(id, names, columns, pks, fks) ==
    LET isTable(n) == \E i \in 1..Len(names) : names[i] = n
        colAddrs == {NewAddr(id, "cols", n) : n \in DOMAIN columns}
        fkAddrs == {NewAddr(id, "fks", n) : n \in DOMAIN fks}
    IN  [a \in colAddrs \cup fkAddrs |->
            IF a[2] = "cols"
            THEN IF isTable(a[3])
                 THEN MarkPrimaryKeys(columns[a[3]], Lookup(pks, a[3], <<>>))
                 ELSE columns[a[3]]
            ELSE fks[a[3]]]

\* the heap after the arrays are written at their addresses
Store(h, arrays) ==
    [a \in DOMAIN h \cup DOMAIN arrays |-> IF a \in DOMAIN arrays THEN arrays[a] ELSE h[a]]

FatalQueries == {"names", "columns", "pks", "fks"}

\* schema.go:51-54 and loadTables, schema.go:160-211. The five queries run
\* one after the other, query k against the catalog at version vs[k]; DDL may
\* change the catalog between two queries. failed names the query that
\* fails, if any. Nothing the call reads or writes here is shared. Load then
\* tests the error loadTables returned.
LoadTablesAt(l, versions) ==
    /\ lpc[l] = "introspect"
    /\ \E failed \in FatalQueries \cup {"est", "none"}, vs \in [1..5 -> versions] :
         /\ \A k \in 1..4 : vs[k] <= vs[k + 1]
         /\ LET id == lloc[l].id
                names == getTableNames(vs[1])
                columns == getColumns(vs[2])
                pks == getPrimaryKeys(vs[3])
                fks == getForeignKeys(vs[4])
                estErr == IF failed = "est" THEN EstimateErrorAbsorbed("est query failed")
                          ELSE nil
                est == IF failed = "est" THEN NoMap ELSE getRowEstimates(vs[5])
                err == IF failed \in FatalQueries THEN failed \o " query failed"
                       ELSE estErr
                \* loadTables returns (nil, err) or (tables, nil)
                tables == IF err # nil THEN <<>>
                          ELSE AssembleTables(id, names, columns, fks, est)
            IN  /\ err # nil => \A k \in 1..5 : \A v \in versions : vs[k] <= v
                /\ heap' = IF err # nil THEN heap
                           ELSE Store(heap, ArraysOf(id, names, columns, pks, fks))
                \* schema.go:52-54
                /\ IF LoadFailed(err)
                   THEN /\ lloc' = [lloc EXCEPT ![l].failed = failed,
                                                ![l].err = err,
                                                ![l].ret = "load tables: " \o err]
                        /\ lpc' = [lpc EXCEPT ![l] = "returned"]
                        /\ UNCHANGED mu
                   \* schema.go:56, c.mu.Lock() is called: new readers wait
                   ELSE /\ lloc' = [lloc EXCEPT ![l].failed = failed,
                                                ![l].err = err,
                                                ![l].tables = tables]
                        /\ lpc' = [lpc EXCEPT ![l] = "lock"]
                        /\ mu' = [mu EXCEPT !.waiting = mu.waiting \cup {l}]
    /\ UNCHANGED <<cTables, cLastRefresh, clock, loads, rpc, rloc, published>>
    /\ UNCHANGED <<gateVars, handlerVars, genVars, schemaVars>>

\* Load's introspection of a database that has relations
LoadTables(l) == LoadTablesAt(l, Versions)

\* Load's introspection of a database that is empty, or was when the call began
LoadTablesNewDb(l) == LoadTablesAt(l, NewDbVersions)

\* schema.go:56. c.mu.Lock() returns
Lock(l) ==
    /\ lpc[l] = "lock"
    /\ CanLock(mu)
    /\ mu' = [mu EXCEPT !.writer = l, !.waiting = mu.waiting \ {l}]
    /\ lpc' = [lpc EXCEPT ![l] = "setTables"]
    /\ UNCHANGED <<heap, cTables, cLastRefresh, clock, loads, lloc, rpc, rloc, published>>
    /\ UNCHANGED <<gateVars, handlerVars, genVars, schemaVars>>

\* a replacement that keeps the tables the cache has, if it has any
SetTablesOnce(l) ==
    /\ lpc[l] = "setTables"
    /\ cTables' = IF cTables = <<>> THEN lloc[l].tables ELSE cTables
    /\ published' = Append(published,
                       [by |-> lloc[l].id, tables |-> lloc[l].tables,
                        deep |-> Deep(heap, lloc[l].tables), at |-> 0])
    /\ lloc' = [lloc EXCEPT ![l].tables = <<>>]
    /\ lpc' = [lpc EXCEPT ![l] = "setTime"]
    /\ UNCHANGED <<heap, cLastRefresh, mu, clock, loads, rpc, rloc>>
    /\ UNCHANGED <<gateVars, handlerVars, genVars, schemaVars>>

\* schema.go:57. c.Tables = tables
SetTables(l) ==
    /\ lpc[l] = "setTables"
    /\ cTables' = lloc[l].tables
    /\ published' = Append(published,
                       [by |-> lloc[l].id, tables |-> lloc[l].tables,
                        deep |-> Deep(heap, lloc[l].tables), at |-> 0])
    /\ lloc' = [lloc EXCEPT ![l].tables = <<>>]
    /\ lpc' = [lpc EXCEPT ![l] = "setTime"]
    /\ UNCHANGED <<heap, cLastRefresh, mu, clock, loads, rpc, rloc>>
    /\ UNCHANGED <<gateVars, handlerVars, genVars, schemaVars>>

\* schema.go:58. c.LastRefresh = time.Now()
SetLastRefresh(l) ==
    /\ lpc[l] = "setTime"
    /\ clock' = clock + 1
    /\ cLastRefresh' = clock + 1
    /\ published' = [i \in 1..Len(published) |->
                       IF published[i].by = lloc[l].id
                       THEN [published[i] EXCEPT !.at = clock + 1]
                       ELSE published[i]]
    /\ lpc' = [lpc EXCEPT ![l] = "unlock"]
    /\ UNCHANGED <<heap, cTables, mu, loads, lloc, rpc, rloc>>
    /\ UNCHANGED <<gateVars, handlerVars, genVars, schemaVars>>

\* schema.go:59. c.mu.Unlock()
Unlock(l) ==
    /\ lpc[l] = "unlock"
    /\ mu' = Unlocked(mu)
    /\ lpc' = [lpc EXCEPT ![l] = "returned"]
    /\ UNCHANGED <<heap, cTables, cLastRefresh, clock, loads, lloc, rpc, rloc, published>>
    /\ UNCHANGED <<gateVars, handlerVars, genVars, schemaVars>>

\* schema.go:53 and 61. Load has returned lloc[l].ret; the caller goes on.
LoadReturn(l) ==
    /\ lpc[l] = "returned"
    /\ lpc' = [lpc EXCEPT ![l] = "idle"]
    /\ lloc' = [lloc EXCEPT ![l] = IdleLoad]
    /\ UNCHANGED <<heap, cTables, cLastRefresh, mu, clock, loads, rpc, rloc, published>>
    /\ UNCHANGED <<gateVars, handlerVars, genVars, schemaVars>>

-----------------------------------------------------------------------------
(* The readers of schema.Cache *)

RECURSIVE JoinAttrs(_)
JoinAttrs(attrs) ==
    IF attrs = <<>> THEN ""
    ELSE IF Len(attrs) = 1 THEN attrs[1]
    ELSE attrs[1] \o ", " \o JoinAttrs(Tail(attrs))

\* schema.go:129-155. One column line.
columnToText(col, fks) ==
    LET attrs == (IF col.IsPK THEN <<"PK">> ELSE <<>>)
                 \o (IF ~col.Nullable THEN <<"NOT NULL">> ELSE <<>>)
        hits == {k \in 1..Len(fks) : fks[k].Column = col.Name}
        first == CHOOSE k \in hits : \A j \in hits : k <= j
    IN  "  - " \o col.Name \o ": " \o col.Type
        \o (IF attrs # <<>> THEN ", " \o JoinAttrs(attrs) ELSE "")
        \o (IF hits # {}
            THEN " -> " \o fks[first].ForeignTable \o "." \o fks[first].ForeignColumn
            ELSE "")
        \o (IF col.Comment # "" THEN " // " \o col.Comment ELSE "")
        \o "\n"

RECURSIVE columnsToText(_, _)
columnsToText(cols, fks) ==
    IF cols = <<>> THEN ""
    ELSE columnToText(Head(cols), fks) \o columnsToText(Tail(cols), fks)

\* schema.go:121-158, of a table with its slices dereferenced
tableToText(t) ==
    "TABLE: " \o t.Name
    \o (IF t.RowEstimate > 0 THEN " (~" \o ToString(t.RowEstimate) \o " rows)" ELSE "")
    \o "\n"
    \o columnsToText(t.Columns, t.ForeignKeys)

RECURSIVE tablesToText(_, _)
tablesToText(tables, i) ==
    IF i > Len(tables) THEN ""
    ELSE (IF i > 1 THEN "\n" ELSE "") \o tableToText(tables[i])
         \o tablesToText(tables, i + 1)

NoTablesText == "(no tables found)"

ReaderOps == {"GetTables", "ToText", "TableCount", "GetLastRefresh"}

\* schema.go:66, 90, 109, 116. The call, up to c.mu.RLock() acquired.
ReaderCall(r) ==
    /\ rpc[r] = "idle"
    /\ CanRLock(mu)
    /\ \E op \in ReaderOps :
         /\ rloc' = [rloc EXCEPT ![r] =
                       [IdleRead EXCEPT !.op = op]]
         /\ rpc' = [rpc EXCEPT ![r] =
                      CASE op = "GetTables" -> "make"
                        [] op = "ToText" -> "check"
                        [] op = "TableCount" -> "count"
                        [] OTHER -> "time"]
    /\ mu' = [mu EXCEPT !.readers = mu.readers \cup {r}]
    /\ UNCHANGED <<heap, cTables, cLastRefresh, clock, loads, lpc, lloc, published>>
    /\ UNCHANGED <<gateVars, handlerVars, genVars, schemaVars>>

\* schema.go:69. tables := make([]Table, len(c.Tables))
GetTablesMake(r) ==
    /\ rpc[r] = "make"
    /\ rloc' = [rloc EXCEPT ![r].n = Len(cTables)]
    /\ rpc' = [rpc EXCEPT ![r] = "copy"]
    /\ UNCHANGED <<heap, cTables, cLastRefresh, mu, clock, loads, lpc, lloc, published>>
    /\ UNCHANGED <<gateVars, handlerVars, genVars, schemaVars>>

\* schema.go:70. copy(tables, c.Tables): the structs, not the arrays they point to
GetTablesCopy(r) ==
    /\ rpc[r] = "copy"
    /\ rloc' = [rloc EXCEPT ![r].result =
                  [i \in 1..rloc[r].n |->
                      IF i <= Len(cTables) THEN cTables[i] ELSE ZeroTable]]
    /\ rpc' = [rpc EXCEPT ![r] = "runlock"]
    /\ UNCHANGED <<heap, cTables, cLastRefresh, mu, clock, loads, lpc, lloc, published>>
    /\ UNCHANGED <<gateVars, handlerVars, genVars, schemaVars>>

\* a ToText without the empty test
ToTextCheckNoSentinel(r) ==
    /\ rpc[r] = "check"
    /\ rpc' = [rpc EXCEPT ![r] = "render"]
    /\ UNCHANGED rloc
    /\ UNCHANGED <<heap, cTables, cLastRefresh, mu, clock, loads, lpc, lloc, published>>
    /\ UNCHANGED <<gateVars, handlerVars, genVars, schemaVars>>

\* schema.go:93-95. The empty test of ToText.
ToTextCheck(r) ==
    /\ rpc[r] = "check"
    /\ IF Len(cTables) = 0
       THEN /\ rloc' = [rloc EXCEPT ![r].result = NoTablesText]
            /\ rpc' = [rpc EXCEPT ![r] = "runlock"]
       ELSE /\ rpc' = [rpc EXCEPT ![r] = "render"]
            /\ UNCHANGED rloc
    /\ UNCHANGED <<heap, cTables, cLastRefresh, mu, clock, loads, lpc, lloc, published>>
    /\ UNCHANGED <<gateVars, handlerVars, genVars, schemaVars>>

\* a rendering that stamps the text with the time of the call
ToTextRenderStamped(r) ==
    /\ rpc[r] = "render"
    /\ rloc' = [rloc EXCEPT ![r].result =
                  tablesToText(Deep(heap, cTables), 1) \o ToString(clock)]
    /\ rpc' = [rpc EXCEPT ![r] = "runlock"]
    /\ UNCHANGED <<heap, cTables, cLastRefresh, mu, clock, loads, lpc, lloc, published>>
    /\ UNCHANGED <<gateVars, handlerVars, genVars, schemaVars>>

\* schema.go:97-104. The range over c.Tables.
ToTextRender(r) ==
    /\ rpc[r] = "render"
    /\ rloc' = [rloc EXCEPT ![r].result = tablesToText(Deep(heap, cTables), 1)]
    /\ rpc' = [rpc EXCEPT ![r] = "runlock"]
    /\ UNCHANGED <<heap, cTables, cLastRefresh, mu, clock, loads, lpc, lloc, published>>
    /\ UNCHANGED <<gateVars, handlerVars, genVars, schemaVars>>

\* schema.go:111. len(c.Tables)
TableCountRead(r) ==
    /\ rpc[r] = "count"
    /\ rloc' = [rloc EXCEPT ![r].result = Len(cTables)]
    /\ rpc' = [rpc EXCEPT ![r] = "runlock"]
    /\ UNCHANGED <<heap, cTables, cLastRefresh, mu, clock, loads, lpc, lloc, published>>
    /\ UNCHANGED <<gateVars, handlerVars, genVars, schemaVars>>

\* schema.go:118. c.LastRefresh
GetLastRefreshRead(r) ==
    /\ rpc[r] = "time"
    /\ rloc' = [rloc EXCEPT ![r].result = cLastRefresh]
    /\ rpc' = [rpc EXCEPT ![r] = "runlock"]
    /\ UNCHANGED <<heap, cTables, cLastRefresh, mu, clock, loads, lpc, lloc, published>>
    /\ UNCHANGED <<gateVars, handlerVars, genVars, schemaVars>>

\* the deferred c.mu.RUnlock() and the return; the caller of GetTables keeps
\* the slice it got
ReaderReturn(r) ==
    /\ rpc[r] = "runlock"
    /\ mu' = [mu EXCEPT !.readers = mu.readers \ {r}]
    /\ rloc' = [rloc EXCEPT ![r] =
                  IF rloc[r].op = "GetTables"
                  THEN [rloc[r] EXCEPT !.n = 0, !.deep = Deep(heap, rloc[r].result)]
                  ELSE IdleRead]
    /\ rpc' = [rpc EXCEPT ![r] = "idle"]
    /\ UNCHANGED <<heap, cTables, cLastRefresh, clock, loads, lpc, lloc, published>>
    /\ UNCHANGED <<gateVars, handlerVars, genVars, schemaVars>>

-----------------------------------------------------------------------------
(* handleSchema and handleSchemaRefresh *)

\* the wall clock advances by one tick per reading; RFC3339 keeps whole seconds
TicksPerSecond == 2

\* time.Time.Format(time.RFC3339) of a clock reading (0 is the zero time)
FormatLastRefresh(t) ==
    IF t = 0 THEN "0001-01-01T00:00:00Z"
    ELSE "2025-01-01T00:00:0" \o ToString(t \div TicksPerSecond) \o "Z"

NoSchemaRequest ==
    [pc |-> "idle", kind |-> "none", load |-> 0, status |-> 0, Error |-> nil,
     Tables |-> <<>>, TableCount |-> 0, LastRefresh |-> ""]

SchemaIdle == sh = NoSchemaRequest

\* main.go:299-300. handleSchema is called.
HandleSchema ==
    /\ sh.pc = "idle"
    /\ sh' = [NoSchemaRequest EXCEPT !.pc = "GetTables", !.kind = "schema"]
    /\ UNCHANGED <<gateVars, handlerVars, cacheVars, genVars>>

\* main.go:307-316. handleSchemaRefresh's call of Load (the Load call l) has
\* returned: its error is written with status 500, or the handler goes on to
\* build the response.
HandleSchemaRefresh(l) ==
    /\ sh.pc = "idle"
    /\ lpc[l] = "returned"
    /\ sh' = IF lloc[l].ret # nil
             THEN [NoSchemaRequest EXCEPT !.pc = "done", !.kind = "refresh",
                                          !.load = lloc[l].id,
                                          !.status = 500,
                                          !.Error = lloc[l].ret]
             ELSE [NoSchemaRequest EXCEPT !.pc = "GetTables", !.kind = "refresh",
                                          !.load = lloc[l].id]
    /\ lpc' = [lpc EXCEPT ![l] = "idle"]
    /\ lloc' = [lloc EXCEPT ![l] = IdleLoad]
    /\ UNCHANGED <<heap, cTables, cLastRefresh, mu, clock, loads, rpc, rloc, published>>
    /\ UNCHANGED <<gateVars, handlerVars, genVars>>

\* main.go:301 and 317, schema.go:64-72. Tables: a.schema.GetTables(), under
\* one RLock
SchemaGetTables ==
    /\ sh.pc = "GetTables"
    /\ CanRLock(mu)
    /\ sh' = [sh EXCEPT !.Tables = cTables, !.pc = "TableCount"]
    /\ UNCHANGED <<gateVars, handlerVars, cacheVars, genVars>>

\* main.go:302 and 318, schema.go:107-112. TableCount: a.schema.TableCount(),
\* under another RLock
SchemaTableCount ==
    /\ sh.pc = "TableCount"
    /\ CanRLock(mu)
    /\ sh' = [sh EXCEPT !.TableCount = Len(cTables), !.pc = "GetLastRefresh"]
    /\ UNCHANGED <<gateVars, handlerVars, cacheVars, genVars>>

\* main.go:303 and 319, schema.go:114-119. LastRefresh:
\* a.schema.GetLastRefresh().Format(time.RFC3339), under a third RLock; then
\* respondJSON writes the schemaResponse with status 200
SchemaGetLastRefresh ==
    /\ sh.pc = "GetLastRefresh"
    /\ CanRLock(mu)
    /\ sh' = [sh EXCEPT !.LastRefresh = FormatLastRefresh(cLastRefresh),
                        !.status = 200, !.pc = "done"]
    /\ UNCHANGED <<gateVars, handlerVars, cacheVars, genVars>>

\* the handler has returned; the next request may come
SchemaNextRequest ==
    /\ sh.pc = "done"
    /\ sh' = NoSchemaRequest
    /\ UNCHANGED <<gateVars, handlerVars, cacheVars, genVars>>

-----------------------------------------------------------------------------
(* The generation path: llm.ParseResponse and the backends *)

UpperOf(c) ==
    CASE c = "m" -> "M" [] c = "i" -> "I" [] c = "s" -> "S" [] c = "n" -> "N"
      [] c = "g" -> "G" [] c = "q" -> "Q" [] c = "l" -> "L" [] c = "e" -> "E"
      [] c = "c" -> "C" [] c = "t" -> "T" [] c = "d" -> "D" [] c = "r" -> "R"
      [] c = "o" -> "O" [] c = "p" -> "P" [] c = "x" -> "X" [] c = "w" -> "W"
      [] c = "h" -> "H" [] c = "u" -> "U"
      [] OTHER -> c

ToUpper(s) == [i \in 1..Len(s) |-> UpperOf(s[i])]

HasSuffix(s, suffix) ==
    Len(s) >= Len(suffix) /\ SubSeq(s, Len(s) - Len(suffix) + 1, Len(s)) = suffix

TrimPrefix(s, prefix) ==
    IF HasPrefix(s, prefix) THEN SubSeq(s, Len(prefix) + 1, Len(s)) ELSE s

TrimSuffix(s, suffix) ==
    IF HasSuffix(s, suffix) THEN SubSeq(s, 1, Len(s) - Len(suffix)) ELSE s

markerMissing == <<"M", "I", "S", "S", "I", "N", "G", ":">>
\* the backtick; a TLA+ string cannot hold one, so "^" stands for it
backtick == "^"
fence == <<backtick, backtick, backtick>>
fenceSqlLower == fence \o <<"s", "q", "l">>
fenceSqlUpper == fence \o <<"S", "Q", "L">>

\* llm.GenerateResponse; SQL and Missing are texts, <<>> the empty string
ZeroResponse == [SQL |-> <<>>, Missing |-> <<>>, Error |-> "", Tokens |-> 0]

\* a parser that leaves the raw text in the SQL field of a MISSING response
ParseResponseKeepsText(raw) ==
    LET trimmed == TrimSpace(raw)
    IN  IF HasPrefix(ToUpper(trimmed), markerMissing)
        THEN [ZeroResponse EXCEPT
                 !.Missing = TrimSpace(SubSeq(trimmed, Len(markerMissing) + 1, Len(trimmed))),
                 !.SQL = trimmed]
        ELSE [ZeroResponse EXCEPT !.SQL = trimmed]

\* prompt.go:323-342
ParseResponse(raw) ==
    LET trimmed == TrimSpace(raw)
        upper == ToUpper(trimmed)
        s1 == TrimPrefix(trimmed, fenceSqlLower)
        s2 == TrimPrefix(s1, fenceSqlUpper)
        s3 == TrimPrefix(s2, fence)
        s4 == TrimSuffix(s3, fence)
    IN  IF HasPrefix(upper, markerMissing)
        THEN [ZeroResponse EXCEPT
                 !.Missing = TrimSpace(SubSeq(trimmed, Len(markerMissing) + 1, Len(trimmed)))]
        ELSE [ZeroResponse EXCEPT !.SQL = TrimSpace(s4)]

\* prompt.go:256-258
IsMissing(r) == r.Missing # <<>> /\ r.SQL = <<>>

\* what the model may answer: a lead (nothing, a fence with or without a
\* language tag, the MISSING marker), a body and possibly a closing fence
Leads == {
    <<>>,
    fenceSqlLower,
    fenceSqlUpper,
    fence \o <<"S", "q", "l">>,
    fence,
    markerMissing,
    <<"m", "i", "s", "s", "i", "n", "g", ":">>,
    <<"M", "i", "s", "s", "i", "n", "g", ":">>,
    <<"M", "I", "S", "S", "I", "N", "G">>
}

Bodies == {
    <<>>,
    <<"\n", "S", "E", "L", "E", "C", "T", " ", "1", "\n">>,
    <<" ", "n", "e", "e", "d", " ", "x", " ">>,
    <<"d", "r", "o", "p", " ", "t">>
}

RawTexts ==
    {a \o l \o b \o t \o z : a \in Pads, l \in Leads, b \in Bodies, t \in {<<>>, fence},
                             z \in Pads}

\* token totals a backend reports
TokenCounts == {0, 1}

\* the failures of a backend before it has a text to parse: the Error string
\* of the response and the error returned with it. prompt.go:137-176, 401-441
TransportFailures == {
    [Error |-> "failed to marshal request", err |-> "marshal error"],
    [Error |-> "failed to create request", err |-> "new request error"],
    [Error |-> "request failed", err |-> "transport error"],
    [Error |-> "failed to read response", err |-> "read error"],
    [Error |-> "rate limited", err |-> "API error: rate limited"],
    [Error |-> "API returned status 500", err |-> "API error: status 500"],
    [Error |-> "failed to parse response", err |-> "unmarshal error"],
    [Error |-> "no response from model", err |-> "empty choices array"]
}

\* no failure
NoFailure == [Error |-> "", err |-> nil]

Failed(f) == [resp |-> [ZeroResponse EXCEPT !.Error = f.Error], err |-> f.err]

\* OpenAIProvider.GenerateSQL, prompt.go:119-183: failure f, or the text
\* content of the first choice and the usage total
OpenAIGenerateSQL(f, content, tokens) ==
    IF f # NoFailure THEN Failed(f)
    ELSE [resp |-> [ParseResponse(content) EXCEPT !.Tokens = tokens], err |-> nil]

\* AnthropicProvider.GenerateSQL, prompt.go:384-460: content is the text of
\* the first text block, empty when there is none
AnthropicGenerateSQL(f, content, tokens) ==
    IF f # NoFailure
    THEN Failed(IF f.err = "empty choices array"
                THEN [f EXCEPT !.err = "empty content array"] ELSE f)
    ELSE IF content = <<>>
    THEN Failed([Error |-> "no text in response", err |-> "no text content"])
    ELSE [resp |-> [ParseResponse(content) EXCEPT !.Tokens = tokens], err |-> nil]

\* what an implementation of llm.Provider may return, prompt.go:232-238:
\* any response with any error or none
OtherResults ==
    {[resp |-> [SQL |-> s, Missing |-> m, Error |-> e, Tokens |-> 0], err |-> err] :
        s \in {<<>>, <<"s", "e", "l", "e", "c", "t", " ", "1">>, <<"d", "r", "o", "p">>},
        m \in {<<>>, <<"x">>},
        e \in {"", "boom"},
        err \in {nil, "boom"}}

Providers == {"openai", "anthropic", "other"}

-----------------------------------------------------------------------------
(* handleGenerateSQL *)

\* generateSQLResponse, main.go:237-242, with the status it is written with
GenResp(status) ==
    [status |-> status, SQL |-> <<>>, Missing |-> <<>>, Error |-> "", Tokens |-> 0]

NoGenReq == [Prompt |-> <<>>, Schema |-> ""]
\* the provider's reply (its failure, if any, and its text) and what
\* GenerateSQL returned for it
NoGenOut == [failure |-> NoFailure, raw |-> <<>>, resp |-> ZeroResponse, err |-> nil]

Prompts == {<<>>, <<" ", "\n">>, <<" ", "q", " ">>}

\* Cache.ToText, schema.go:89-105, of the cache as it is
ToText(h, tables) ==
    IF Len(tables) = 0 THEN NoTablesText ELSE tablesToText(Deep(h, tables), 1)

\* main.go:272
ProviderFailed(err) == err # nil

\* a handler that delivers whatever the parser left
CandidateRejectedNever(err) == FALSE

\* main.go:283
CandidateRejected(err) == err # nil

\* the gate's reason passed on as it is
GeneratedInvalidBare(reason) == reason

\* main.go:285
GeneratedInvalid(reason) == "LLM generated invalid query: " \o reason

\* a response that copies the whole provider response
CandidateRespWhole(r) ==
    [GenResp(200) EXCEPT !.SQL = r.SQL, !.Missing = r.Missing, !.Error = r.Error,
                         !.Tokens = r.Tokens]

\* main.go:290
CandidateResp(r) == [GenResp(200) EXCEPT !.SQL = r.SQL, !.Tokens = r.Tokens]

\* the generation path's variables when another specification runs
GenIdle ==
    /\ gpc = "idle"
    /\ gProvider = "none"
    /\ gReq = NoGenReq
    /\ gCalls = 0
    /\ gOut = NoGenOut
    /\ gGated = <<>>
    /\ gWritten = <<>>

\* a.llm is set once, in main (main.go:78-97)
InitGen ==
    /\ gpc = "idle"
    /\ gProvider \in Providers \cup {"none"}
    /\ gReq = NoGenReq
    /\ gCalls = 0
    /\ gOut = NoGenOut
    /\ gGated = <<>>
    /\ gWritten = <<>>

GenReturn(r) ==
    /\ gWritten' = Append(gWritten, r)
    /\ gpc' = "done"

\* main.go:244-269. The provider test, the decoding, the prompt test and the
\* llm.GenerateRequest.
GenBegin ==
    /\ gpc = "idle"
    /\ IF gProvider = "none"
       THEN /\ GenReturn([GenResp(503) EXCEPT !.Error =
                   "LLM not configured. Set LLM_API_KEY environment variable."])
            /\ UNCHANGED gReq
       ELSE \E decoded \in BOOLEAN, prompt \in Prompts :
              IF ~decoded
              THEN /\ prompt = <<>>
                   /\ GenReturn([GenResp(400) EXCEPT !.Error = "invalid JSON body"])
                   /\ UNCHANGED gReq
              ELSE IF TrimSpace(prompt) = <<>>
              THEN /\ GenReturn([GenResp(400) EXCEPT !.Error = "prompt is required"])
                   /\ gReq' = [gReq EXCEPT !.Prompt = prompt]
              ELSE /\ gReq' = [Prompt |-> prompt, Schema |-> ToText(heap, cTables)]
                   /\ gpc' = "call"
                   /\ UNCHANGED gWritten
    /\ UNCHANGED <<gProvider, gCalls, gOut, gGated>>
    /\ UNCHANGED <<gateVars, handlerVars, cacheVars, schemaVars>>

\* main.go:271. a.llm.GenerateSQL(ctx, llmReq) returns.
GenCall ==
    /\ gpc = "call"
    /\ gCalls' = gCalls + 1
    /\ \E f \in TransportFailures \cup {NoFailure}, content \in RawTexts,
          tokens \in TokenCounts, other \in OtherResults :
         /\ f # NoFailure => content = <<>> /\ tokens = 0
         /\ CASE gProvider = "openai" ->
                   /\ other = CHOOSE o \in OtherResults : TRUE
                   /\ gOut' = [failure |-> f, raw |-> content]
                                @@ OpenAIGenerateSQL(f, content, tokens)
              [] gProvider = "anthropic" ->
                   /\ other = CHOOSE o \in OtherResults : TRUE
                   /\ gOut' = [failure |-> f, raw |-> content]
                                @@ AnthropicGenerateSQL(f, content, tokens)
              [] OTHER ->
                   /\ f = NoFailure /\ content = <<>> /\ tokens = 0
                   /\ gOut' = [failure |-> f, raw |-> <<>>] @@ other
    /\ gpc' = "respond"
    /\ UNCHANGED <<gProvider, gReq, gGated, gWritten>>
    /\ UNCHANGED <<gateVars, handlerVars, cacheVars, schemaVars>>

\* main.go:272-290. The error test, the missing test, the gate and the response.
GenRespond ==
    /\ gpc = "respond"
    /\ IF ProviderFailed(gOut.err)
       THEN /\ GenReturn([GenResp(500) EXCEPT !.Error = gOut.resp.Error])
            /\ UNCHANGED gGated
       ELSE IF IsMissing(gOut.resp)
       THEN /\ GenReturn([GenResp(200) EXCEPT !.Missing = gOut.resp.Missing,
                                             !.Tokens = gOut.resp.Tokens])
            /\ UNCHANGED gGated
       ELSE LET v == validateSelectQuery(gOut.resp.SQL)
            IN  /\ gGated' = Append(gGated, gOut.resp.SQL)
                /\ IF CandidateRejected(v.err)
                   THEN GenReturn([GenResp(400) EXCEPT !.Error = GeneratedInvalid(v.err)])
                   ELSE GenReturn(CandidateResp(gOut.resp))
    /\ UNCHANGED <<gProvider, gReq, gCalls, gOut>>
    /\ UNCHANGED <<gateVars, handlerVars, cacheVars, schemaVars>>

\* the request is over; the next one starts from fresh locals
GenNextRequest ==
    /\ gpc = "done"
    /\ gpc' = "idle"
    /\ gReq' = NoGenReq
    /\ gCalls' = 0
    /\ gOut' = NoGenOut
    /\ gGated' = <<>>
    /\ gWritten' = <<>>
    /\ UNCHANGED gProvider
    /\ UNCHANGED <<gateVars, handlerVars, cacheVars, schemaVars>>

-----------------------------------------------------------------------------
(* Properties of the gate and of the handlers *)

Min(a, b) == IF a <= b THEN a ELSE b

AllWhite(s) == \A k \in 1..Len(s) : s[k] \in WhiteSpace

\* t is s without its leading and trailing whitespace
IsTrimOf(t, s) ==
    \E i, j \in 0..Len(s) :
        /\ i + j <= Len(s)
        /\ t = SubSeq(s, i + 1, Len(s) - j)
        /\ \A k \in 1..i : s[k] \in WhiteSpace
        /\ \A k \in (Len(s) - j + 1)..Len(s) : s[k] \in WhiteSpace
        /\ t # <<>> => t[1] \notin WhiteSpace /\ t[Len(t)] \notin WhiteSpace

UpperOfKeywordLetter(c) ==
    CASE c = "s" -> "S" [] c = "e" -> "E" [] c = "l" -> "L" [] c = "c" -> "C"
      [] c = "t" -> "T" [] c = "w" -> "W" [] c = "i" -> "I" [] c = "h" -> "H"

\* s begins with the keyword kw, letter case ignored
BeginsWith(s, kw) ==
    /\ Len(s) >= Len(kw)
    /\ \A k \in 1..Len(kw) : s[k] \in {kw[k], UpperOfKeywordLetter(kw[k])}

WordChars ==
    {"s", "e", "l", "c", "t", "w", "i", "h", "d", "r", "o", "p", "n", "u",
     "S", "E", "L", "C", "T", "W", "I", "H", "D", "R", "O", "P", "N", "U", "1"}

\* the leading word of s: its longest prefix of letters and digits
RECURSIVE FirstWord(_)
FirstWord(s) ==
    IF s # <<>> /\ Head(s) \in WordChars THEN <<Head(s)>> \o FirstWord(Tail(s)) ELSE <<>>

\* s is the keyword kw, letter case ignored
IsWord(s, kw) == Len(s) = Len(kw) /\ BeginsWith(s, kw)

\* C1: in handleQuery and handleExportCSV a text reaches db.QueryContext only
\* after the gate accepted the request's text, the text dispatched is the
\* request's text trimmed, and a request the gate rejects dispatches nothing.
C1_DispatchOnlyAfterGate ==
    /\ \A i \in 1..Len(dispatched) :
          /\ req.kind \in {"query", "export"}
          /\ gateErr = nil
          /\ ~AllWhite(req.Query)
          /\ BeginsWith(dispatched[i], kwSelect) \/ BeginsWith(dispatched[i], kwWith)
          /\ IsTrimOf(dispatched[i], req.Query)
    /\ gateErr # nil => dispatched = <<>>
    /\ Len(dispatched) <= 1

C1_Witness ==
    /\ req.kind = "export"
    /\ Len(dispatched) = 1
    /\ dispatched[1] # req.Query

\* C2: validate returns EmptyQuery for an empty or all-whitespace text, the
\* trimmed text and no error when the trimmed text begins with select or with
\* in any letter case, and NotReadOnly with no text otherwise.
C2_ValidateContract ==
    gateOut # NotRun =>
        IF AllWhite(gateIn)
        THEN gateOut = [query |-> <<>>, err |-> errEmptyQuery]
        ELSE IF \E t \in {SubSeq(gateIn, a, b) : a, b \in 1..Len(gateIn)} :
                    /\ IsTrimOf(t, gateIn)
                    /\ BeginsWith(t, kwSelect) \/ BeginsWith(t, kwWith)
             THEN /\ gateOut.err = nil
                  /\ IsTrimOf(gateOut.query, gateIn)
             ELSE gateOut = [query |-> <<>>, err |-> errNotSelectQuery]

C2_Witness ==
    /\ gateOut # NotRun
    /\ gateOut.err = nil
    /\ gateOut.query # gateIn
    /\ Len(gateOut.query) > Len(kwSelect)

\* C3 as claimed: validate accepts a non-empty trimmed text if and only if
\* its first word, letter case ignored, is exactly SELECT or WITH.
C3_Original ==
    (gateOut # NotRun /\ ~AllWhite(gateIn)) =>
        LET w == FirstWord(TrimSpace(gateIn))
        IN  /\ gateOut.err = nil <=> (IsWord(w, kwSelect) \/ IsWord(w, kwWith))
            /\ gateOut.err # nil => gateOut.err = errNotSelectQuery

\* C3 as amended: validate accepts a non-empty trimmed text if and only if
\* its first word begins, letter case ignored, with the letters select or
\* with; a longer first word that starts with those letters (selection,
\* without) is accepted, and any other text is rejected with NotReadOnly.
C3_FirstWordPrefix ==
    (gateOut # NotRun /\ ~AllWhite(gateIn)) =>
        LET w == FirstWord(TrimSpace(gateIn))
        IN  /\ gateOut.err = nil <=> (BeginsWith(w, kwSelect) \/ BeginsWith(w, kwWith))
            /\ gateOut.err # nil => gateOut = [query |-> <<>>, err |-> errNotSelectQuery]

C3_Witness ==
    /\ gateOut # NotRun
    /\ gateOut.err = nil
    /\ FirstWord(gateIn) = <<"w", "i", "t", "h", "o", "u", "t">>

\* C10: when the cursor yields its n rows without failure and the clamped
\* limit is L, handleQuery answers with the first min(n, L) rows in cursor
\* order, count = min(n, L), and more = TRUE exactly when n > L.
C10_BoundedRows ==
    (hpc = "done" /\ req.kind = "query" /\ cursor.state # "none" /\ fault = "none") =>
        /\ Len(written) = 1
        /\ LET r == written[1]
               k == Min(cursor.n, limit)
           IN  /\ r.status = 200
               /\ r.Error = ""
               /\ Len(r.Rows) = k
               /\ \A i \in 1..k : r.Rows[i][1].v = ToString(i)
               /\ r.Count = k
               /\ r.More <=> cursor.n > limit

C10_Witness ==
    /\ hpc = "done"
    /\ req.kind = "query"
    /\ fault = "none"
    /\ Len(written) = 1
    /\ written[1].More
    /\ written[1].Count = limit
    /\ cursor.n > limit
    /\ limit > 1

-----------------------------------------------------------------------------
(* Properties of the schema cache *)

Last(s) == s[Len(s)]

\* a loader between c.mu.Lock() returning and c.mu.Unlock()
Replacing(l) == lpc[l] \in {"setTables", "setTime", "unlock"}

\* the history entry of Load call id, if it replaced the tables
PublishedBy(id) == {i \in 1..Len(published) : published[i].by = id}

\* C4: whatever GetTables, ToText or TableCount is about to return was
\* computed from one snapshot of the history of replacements (the initial
\* empty one included): the whole table sequence of that snapshot, never
\* tables of two of them.
C4_OneSnapshot ==
    \A r \in Readers :
        rpc[r] = "runlock" =>
            CASE rloc[r].op = "GetTables" ->
                   \E i \in 1..Len(published) :
                       Deep(heap, rloc[r].result) = published[i].deep
              [] rloc[r].op = "ToText" ->
                   \E i \in 1..Len(published) :
                       rloc[r].result =
                           IF Len(published[i].deep) = 0 THEN NoTablesText
                           ELSE tablesToText(published[i].deep, 1)
              [] rloc[r].op = "TableCount" ->
                   \E i \in 1..Len(published) :
                       rloc[r].result = Len(published[i].deep)
              [] OTHER -> TRUE

\* GetTables is about to return the tables of the one Load that has replaced
\* the initial empty sequence, while another Load waits to replace them
C4_Witness ==
    \E r \in Readers :
        /\ rpc[r] = "runlock"
        /\ rloc[r].op = "GetTables"
        /\ Len(published) = 2
        /\ Len(rloc[r].result) = 2
        /\ Deep(heap, rloc[r].result) = published[2].deep
        /\ \E l \in Loaders : lpc[l] = "lock"

\* C5: a Load call whose table-names, columns, primary-keys or foreign-keys
\* query failed returns an error, and it has replaced neither the tables nor
\* the timestamp of the cache.
C5_FailedLoadLeavesCache ==
    \A l \in Loaders :
        (lpc[l] = "returned" /\ lloc[l].failed \in FatalQueries) =>
            /\ lloc[l].ret # nil
            /\ PublishedBy(lloc[l].id) = {}
            /\ mu.writer # l

\* a failed Load has returned while the cache holds the snapshot of an
\* earlier Load
C5_Witness ==
    \E l \in Loaders :
        /\ lpc[l] = "returned"
        /\ lloc[l].failed \in FatalQueries
        /\ lloc[l].id = 2
        /\ Len(published) = 2
        /\ cTables = published[2].tables
        /\ Len(cTables) > 0
        /\ cLastRefresh = published[2].at

\* C6: a Load call of which only the row-estimate query failed returns nil,
\* and it has replaced the tables by a sequence in which every row estimate
\* is 0.
C6_EstimateFailureAbsorbed ==
    \A l \in Loaders :
        (lpc[l] = "returned" /\ lloc[l].failed = "est") =>
            /\ lloc[l].ret = nil
            /\ PublishedBy(lloc[l].id) # {}
            /\ \A i \in PublishedBy(lloc[l].id) :
                   \A k \in 1..Len(published[i].deep) :
                       published[i].deep[k].RowEstimate = 0

\* such a Load has returned after publishing two tables
C6_Witness ==
    \E l \in Loaders :
        /\ lpc[l] = "returned"
        /\ lloc[l].failed = "est"
        /\ lloc[l].ret = nil
        /\ \E i \in PublishedBy(lloc[l].id) : Len(published[i].deep) = 2

\* C7: the exclusive lock is held by a Load only between its replacement of
\* the tables and its Unlock, never while it introspects; while no Load is
\* past its introspection a reader's RLock succeeds; and whenever a reader is
\* inside a call the cache holds a completed replacement, tables and
\* timestamp of the same Load, never one in progress.
C7_LockOnlyForReplacement ==
    /\ \A l \in Loaders :
           /\ mu.writer = l => Replacing(l)
           /\ lpc[l] = "introspect" => l \notin mu.waiting
    /\ (\A l \in Loaders : lpc[l] \in {"idle", "introspect", "returned"}) => CanRLock(mu)
    /\ \A r \in Readers :
           rpc[r] # "idle" =>
               /\ \A l \in Loaders : ~Replacing(l)
               /\ cTables = Last(published).tables
               /\ cLastRefresh = Last(published).at
               /\ \A l \in Loaders : lpc[l] = "introspect" => Last(published).by # lloc[l].id

\* GetTables is about to return the snapshot of the first Load while the
\* second Load is introspecting
C7_Witness ==
    \E r \in Readers, l \in Loaders :
        /\ lpc[l] = "introspect"
        /\ lloc[l].id = 2
        /\ rpc[r] = "runlock"
        /\ rloc[r].op = "GetTables"
        /\ Len(rloc[r].result) > 0
        /\ Len(published) = 2
        /\ published[2].by = 1
        /\ Deep(heap, rloc[r].result) = published[2].deep

\* C8: whenever no Load is inside its replacement, the cache holds the
\* tables of the Load that replaced them last together with the timestamp
\* that Load wrote; every Load whose fatal queries succeeded returns nil
\* after replacing the tables; and a Load waiting for the lock waits only for
\* a Load inside its replacement or a reader inside its call.
C8_LastReplacementWins ==
    /\ (\A l \in Loaders : ~Replacing(l)) =>
           /\ cTables = Last(published).tables
           /\ Deep(heap, cTables) = Last(published).deep
           /\ cLastRefresh = Last(published).at
    /\ \A l \in Loaders :
           (lpc[l] = "returned" /\ lloc[l].failed \notin FatalQueries) =>
               /\ lloc[l].ret = nil
               /\ PublishedBy(lloc[l].id) # {}
    /\ \A l \in Loaders :
           (lpc[l] = "lock" /\ ~CanLock(mu)) =>
               \/ \E k \in Loaders : mu.writer = k /\ Replacing(k)
               \/ \E r \in mu.readers : rpc[r] # "idle"

\* two Loads have returned; the one called first replaced the tables last
C8_Witness ==
    /\ \A l \in Loaders : lpc[l] = "returned" /\ lloc[l].ret = nil
    /\ Len(published) = 3
    /\ published[2].by = 2
    /\ published[3].by = 1
    /\ published[2].deep # published[3].deep
    /\ cTables = published[3].tables
    /\ cLastRefresh = published[3].at

\* C9: the table sequence a GetTables call returned, followed through its
\* Columns and ForeignKeys slices, stays what it was when the call returned;
\* so does every table sequence the cache has held.
C9_SnapshotImmutable ==
    /\ \A r \in Readers :
           (rpc[r] = "idle" /\ rloc[r].op = "GetTables") =>
               Deep(heap, rloc[r].result) = rloc[r].deep
    /\ \A i \in 1..Len(published) :
           Deep(heap, published[i].tables) = published[i].deep

\* a caller holds the tables of the first Load after a second Load, which
\* found other columns, has replaced them and returned
C9_Witness ==
    \E r \in Readers :
        /\ rpc[r] = "idle"
        /\ rloc[r].op = "GetTables"
        /\ Len(rloc[r].result) > 0
        /\ Len(published) = 3
        /\ rloc[r].deep = published[2].deep
        /\ rloc[r].deep # published[3].deep
        /\ cTables = published[3].tables
        /\ \A l \in Loaders : lpc[l] \in {"idle", "returned"}

-----------------------------------------------------------------------------
(* Properties of the limit, the cursor and the responses of handleQuery *)

\* C11: the limit handleQuery works with is the default 200 when the
\* requested limit is 0 or less, 1000 when it is more than 1000 and the
\* requested limit otherwise; it lies in 1..1000 and clamping it again
\* leaves it as it is.
C11_ClampLimit ==
    (req.kind = "query" /\ hpc \in {"dispatch", "loop"}) =>
        /\ req.Limit <= 0 => limit = 200
        /\ req.Limit > 1000 => limit = 1000
        /\ req.Limit \in 1..1000 => limit = req.Limit
        /\ limit \in 1..1000
        /\ clampLimit(limit) = limit

\* a request with limit 0 is being served with limit 200
C11_Witness ==
    /\ req.kind = "query"
    /\ hpc = "loop"
    /\ req.Limit = 0
    /\ limit = 200

-----------------------------------------------------------------------------
(* Properties of the generation path *)

BuiltIn == {"openai", "anthropic"}

select1 == <<"S", "E", "L", "E", "C", "T", " ", "1">>

\* the request went through the provider call and got a response without error
Generated == gpc = "done" /\ gCalls = 1 /\ gOut.err = nil

\* C12: a response of handleGenerateSQL carries a candidate query only if
\* the gate accepted that text, which is then the text the provider's
\* response held (the parser's output, for the two backends); when the gate
\* rejects the candidate the response is the error "LLM generated invalid
\* query: ..." and carries no candidate.
C12_OnlyGatedCandidates ==
    /\ \A k \in 1..Len(gWritten) :
           gWritten[k].SQL # <<>> =>
               /\ validateSelectQuery(gWritten[k].SQL).err = nil
               /\ gWritten[k].SQL = gOut.resp.SQL
               /\ gGated = <<gWritten[k].SQL>>
               /\ gProvider \in BuiltIn => gWritten[k].SQL = ParseResponse(gOut.raw).SQL
    /\ (/\ Generated
        /\ ~(gOut.resp.Missing # <<>> /\ gOut.resp.SQL = <<>>)
        /\ validateSelectQuery(gOut.resp.SQL).err # nil) =>
           /\ Len(gWritten) = 1
           /\ gWritten[1].status = 400
           /\ gWritten[1].SQL = <<>>
           /\ gWritten[1].Error =
                  "LLM generated invalid query: " \o validateSelectQuery(gOut.resp.SQL).err

\* the candidate of a fenced answer has been delivered without the fence
C12_Witness ==
    /\ Generated
    /\ gProvider \in BuiltIn
    /\ HasPrefix(gOut.raw, fenceSqlLower)
    /\ HasSuffix(gOut.raw, fence)
    /\ Len(gWritten) = 1
    /\ gWritten[1].status = 200
    /\ gWritten[1].SQL = select1

\* the three terminal outcomes of a generate-query request
DeliveredMissing(r) ==
    r.status = 200 /\ r.Missing # <<>> /\ r.SQL = <<>> /\ r.Error = ""

DeliveredCandidate(r) ==
    r.status = 200 /\ r.SQL # <<>> /\ r.Missing = <<>> /\ r.Error = ""

DeliveredError(r) ==
    r.status # 200 /\ r.SQL = <<>> /\ r.Missing = <<>>

\* C13: a generate-query request calls the provider at most once, applies
\* the gate at most once and writes nothing before it ends; when it has
\* ended it has written exactly one response, which is exactly one of a
\* missing explanation, a validated candidate and an error, and after a
\* failed call or a failed validation there was no further call or validation.
C13_OneTerminalOutcome ==
    /\ gCalls <= 1
    /\ Len(gGated) <= 1
    /\ gpc # "done" => gWritten = <<>>
    /\ gpc = "done" =>
           /\ Len(gWritten) = 1
           /\ LET r == gWritten[1]
              IN  /\ DeliveredMissing(r) \/ DeliveredCandidate(r) \/ DeliveredError(r)
                  /\ ~(DeliveredMissing(r) /\ DeliveredCandidate(r))
                  /\ ~(DeliveredMissing(r) /\ DeliveredError(r))
                  /\ ~(DeliveredCandidate(r) /\ DeliveredError(r))
                  /\ gOut.err # nil => DeliveredError(r) /\ gCalls = 1 /\ gGated = <<>>
                  /\ (gGated # <<>> /\ validateSelectQuery(gGated[1]).err # nil) =>
                         DeliveredError(r) /\ gCalls = 1

\* a request that ended with the error of a failed validation
C13_Witness ==
    /\ gpc = "done"
    /\ gCalls = 1
    /\ Len(gGated) = 1
    /\ validateSelectQuery(gGated[1]).err # nil
    /\ Len(gWritten) = 1
    /\ gWritten[1].status = 400

\* the provider answered with a text that begins, after trimming and in any
\* letter case, with the marker MISSING:
MarkerAnswer ==
    /\ Generated
    /\ gProvider \in BuiltIn
    /\ Len(TrimSpace(gOut.raw)) >= Len(markerMissing)
    /\ ToLower(SubSeq(TrimSpace(gOut.raw), 1, Len(markerMissing))) = ToLower(markerMissing)

\* what follows the marker, trimmed
Remainder ==
    TrimSpace(SubSeq(TrimSpace(gOut.raw), Len(markerMissing) + 1, Len(TrimSpace(gOut.raw))))

\* C14: whenever the provider's text begins, after trimming and in any
\* letter case, with MISSING:, the response is the delivered missing
\* explanation: status 200, the trimmed remainder as the explanation, no
\* candidate, no error, and the gate was not applied; for every remainder,
\* the empty one included.
C14_MarkerDeliversMissing ==
    MarkerAnswer =>
        /\ Len(gWritten) = 1
        /\ gWritten[1].status = 200
        /\ gWritten[1].Missing = Remainder
        /\ gWritten[1].SQL = <<>>
        /\ gWritten[1].Error = ""
        /\ gGated = <<>>

\* the reason string handleQuery and handleExportCSV report for a text the
\* gate rejects with err (main.go:136, 194)
UserSubmittedInvalid(err) == ErrorResp(400, err).Error

\* C15: when the gate rejects a generated text, under either rule, the
\* reason string of the generate-query response differs from the reason
\* string the same text gets when a user submits it to execute-bounded-query
\* or export-query, and from both of the gate's own reasons.
C15_GeneratedInvalidDistinct ==
    (gpc = "done" /\ gGated # <<>> /\ validateSelectQuery(gGated[1]).err # nil) =>
        LET err == validateSelectQuery(gGated[1]).err
        IN  /\ err \in {errEmptyQuery, errNotSelectQuery}
            /\ Len(gWritten) = 1
            /\ gWritten[1].Error # ""
            /\ gWritten[1].Error # UserSubmittedInvalid(err)
            /\ gWritten[1].Error \notin {errEmptyQuery, errNotSelectQuery}

\* a generated text that is not read-only has been reported
C15_Witness ==
    /\ gpc = "done"
    /\ gGated # <<>>
    /\ validateSelectQuery(gGated[1]).err = errNotSelectQuery
    /\ Len(gWritten) = 1
    /\ gWritten[1].Error = "LLM generated invalid query: only SELECT / CTE queries are allowed"

WellFormed(r) ==
    /\ ~(r.SQL # <<>> /\ r.Missing # <<>>)
    /\ r.Error # "" => r.SQL = <<>> /\ r.Missing = <<>>

\* C17: a response produced by ParseResponse or returned by one of the two
\* backends never has both a candidate query and a missing explanation, and
\* one with an error string has neither.
C17_ResponseWellFormed ==
    (gProvider \in BuiltIn /\ gpc \in {"respond", "done"} /\ gCalls = 1) =>
        /\ WellFormed(gOut.resp)
        /\ WellFormed(ParseResponse(gOut.raw))
        /\ gOut.err # nil => gOut.resp.SQL = <<>> /\ gOut.resp.Missing = <<>>

\* a backend returned the explanation of a MISSING answer
C17_Witness ==
    /\ gProvider = "anthropic"
    /\ gpc = "respond"
    /\ gOut.err = nil
    /\ HasPrefix(ToUpper(TrimSpace(gOut.raw)), markerMissing)
    /\ gOut.resp.Missing = <<"n", "e", "e", "d", " ", "x">>
    /\ gOut.resp.SQL = <<>>

\* a text that begins with three backticks and the letters s, q, l in any case
SqlFenced(t) ==
    /\ Len(t) >= Len(fenceSqlLower)
    /\ HasPrefix(t, fence)
    /\ ToLower(SubSeq(t, Len(fence) + 1, Len(fenceSqlLower))) = <<"s", "q", "l">>

\* the text without its leading fence marker, tagged or bare, if it has one
WithoutLeadingFence(t) ==
    IF SqlFenced(t) THEN SubSeq(t, Len(fenceSqlLower) + 1, Len(t))
    ELSE IF HasPrefix(t, fence) THEN SubSeq(t, Len(fence) + 1, Len(t))
    ELSE t

\* the text without its trailing fence, if it has one
WithoutTrailingFence(t) ==
    IF HasSuffix(t, fence) THEN SubSeq(t, 1, Len(t) - Len(fence)) ELSE t

\* C18: for a raw text that does not begin with the MISSING: marker, the
\* candidate query is the trimmed text without a leading fence marker (three
\* backticks with sql in any letter case, or three backticks alone) and
\* without a trailing fence, trimmed again: a fenced SELECT 1 gives SELECT 1
\* whatever the case of the tag, and an unfenced text is only trimmed.
C18_FenceStripped ==
    (gProvider \in BuiltIn /\ gpc \in {"respond", "done"} /\ gCalls = 1
        /\ gOut.err = nil /\ ~HasPrefix(ToUpper(TrimSpace(gOut.raw)), markerMissing)) =>
        /\ gOut.resp.SQL =
               TrimSpace(WithoutTrailingFence(WithoutLeadingFence(TrimSpace(gOut.raw))))
        /\ gOut.resp.Missing = <<>>

-----------------------------------------------------------------------------
(* Properties of the cursor and of the responses of the handlers *)

\* C19: when a request of handleQuery or handleExportCSV has ended no rows
\* are open: rows that were opened are closed, whether the request ended by
\* completion, at the limit, or on a failure of the column list, a scan, the
\* iteration or a write; when the gate rejected the query or the dispatch
\* failed there never were rows, and rows exist only after a dispatch.
C19_CursorReleased ==
    /\ hpc = "done" => cursor.state # "open"
    /\ (hpc = "done" /\ dispatched # <<>> /\ fault # "query") => cursor.state = "closed"
    /\ (gateErr # nil \/ fault = "query") => cursor.state = "none"
    /\ cursor.state # "none" => dispatched # <<>> /\ gateErr = nil
    /\ cursor.state = "open" => hpc = "loop"

\* handleQuery stopped at the limit with rows left, and the rows are closed
C19_Witness ==
    /\ hpc = "done"
    /\ req.kind = "query"
    /\ Len(written) = 1
    /\ written[1].More
    /\ cursor.state = "closed"
    /\ cursor.pos <= cursor.n

\* the two forms of a response of handleQuery
ErrorForm(r) ==
    /\ r.status # 200
    /\ r.Error # ""
    /\ r.Columns = <<>>
    /\ r.Rows = <<>>
    /\ r.Count = 0
    /\ ~r.More

SuccessForm(r) ==
    /\ r.status = 200
    /\ r.Error = ""
    /\ r.Columns = Columns
    /\ r.Count = Len(r.Rows)

\* C20: every response of handleQuery is an error response (a reason, no
\* columns, no rows, count 0, more false) or a success response (no error,
\* the query's columns, count equal to the number of rows); after a scan
\* failure or an iteration error it is the error form, without the rows
\* read so far.
C20_ErrorOrSuccess ==
    req.kind = "query" =>
        /\ \A k \in 1..Len(written) :
               /\ ErrorForm(written[k]) \/ SuccessForm(written[k])
               /\ fault # "none" => ErrorForm(written[k])
               /\ (gateErr = nil /\ fault = "none" /\ dispatched # <<>>) =>
                      SuccessForm(written[k])
        /\ (hpc = "done" /\ fault \in {"scan", "iter"}) =>
               Len(written) = 1 /\ ErrorForm(written[1])

\* a scan failed after a row had been read, and the response has no rows
C20_Witness ==
    /\ req.kind = "query"
    /\ hpc = "done"
    /\ fault = "scan"
    /\ Len(resp.Rows) >= 1
    /\ Len(written) = 1
    /\ written[1].Rows = <<>>
    /\ written[1].Error # ""

\* C21: when a scan failure or an iteration error (a cancelled deadline
\* included) ends handleExportCSV after the header row, the response is an
\* error: it does not have the success status and it is not the header with
\* the records read before the failure.
C21_ExportCompleteOrError ==
    (req.kind = "export" /\ hpc = "done" /\ fault \in {"scan", "iter"}) =>
        /\ Len(written) = 1
        /\ written[1].status # 200
        /\ written[1].Error # ""
        /\ written[1].Body = <<>>

-----------------------------------------------------------------------------
(* Properties of the readers of the cache *)

\* the text of a snapshot, from the tables as they were when it was published
TextOf(snapshot) ==
    IF Len(snapshot.deep) = 0 THEN NoTablesText ELSE tablesToText(snapshot.deep, 1)

\* C22: the text a ToText call returns is the text of the snapshot that is
\* current during the call, computed from nothing but the tables that
\* snapshot was published with; so two calls with no replacement between
\* them return the same text, whatever readers ran and loads failed meanwhile.
C22_ToTextOfSnapshot ==
    \A r \in Readers :
        (rloc[r].op = "ToText" /\ rpc[r] = "runlock") =>
            /\ rloc[r].result = TextOf(Last(published))
            /\ mu.writer = NoProc

\* a ToText call holds the text of a loaded snapshot while a later Load has
\* failed
C22_Witness ==
    \E r \in Readers, l \in Loaders :
        /\ rloc[r].op = "ToText"
        /\ rpc[r] = "runlock"
        /\ rloc[r].result # NoTablesText
        /\ Len(published) = 2
        /\ lpc[l] = "returned"
        /\ lloc[l].ret # nil
        /\ lloc[l].id > Last(published).by

\* the kind of outcome a GenerateSQL result is
OutcomeKind(res) ==
    IF res.err # nil THEN "error"
    ELSE IF res.resp.Missing # <<>> /\ res.resp.SQL = <<>> THEN "missing"
    ELSE "candidate"

\* C23: for the same reply of the provider (a failure, or the first returned
\* text, which may be empty, with a token count) OpenAIProvider.GenerateSQL
\* and AnthropicProvider.GenerateSQL return the same kind of outcome, error,
\* candidate or missing, with the same candidate and the same explanation.
C23_BackendsAgree ==
    (gProvider \in BuiltIn /\ gpc \in {"respond", "done"} /\ gCalls = 1) =>
        LET o == OpenAIGenerateSQL(gOut.failure, gOut.raw, gOut.resp.Tokens)
            a == AnthropicGenerateSQL(gOut.failure, gOut.raw, gOut.resp.Tokens)
        IN  /\ [resp |-> gOut.resp, err |-> gOut.err] = (IF gProvider = "openai" THEN o ELSE a)
            /\ OutcomeKind(o) = OutcomeKind(a)
            /\ o.resp.SQL = a.resp.SQL
            /\ o.resp.Missing = a.resp.Missing

\* a reader operation that holds its result
Holds(r, op) == rloc[r].op = op /\ rpc[r] = "runlock"

\* C24: until the first successful Load has replaced it, whatever Loads have
\* failed, the cache is empty: no tables, the zero timestamp, and the readers
\* return 0 tables, the empty sequence, the zero timestamp and the text
\* "(no tables found)"; ToText also returns that text when the current
\* snapshot comes from a Load that found no tables.
C24_EmptyUntilLoaded ==
    /\ Len(published) = 1 =>
           /\ cTables = <<>>
           /\ cLastRefresh = 0
           /\ \A r \in Readers :
                  /\ Holds(r, "TableCount") => rloc[r].result = 0
                  /\ Holds(r, "GetTables") => rloc[r].result = <<>>
                  /\ Holds(r, "GetLastRefresh") => rloc[r].result = 0
                  /\ Holds(r, "ToText") => rloc[r].result = "(no tables found)"
    /\ \A r \in Readers :
           (Holds(r, "ToText") /\ Len(Last(published).tables) = 0) =>
               rloc[r].result = "(no tables found)"

\* ToText holds the sentinel after a Load that found no tables replaced the
\* cache
C24_Witness ==
    \E r \in Readers :
        /\ Holds(r, "ToText")
        /\ rloc[r].result = "(no tables found)"
        /\ Len(published) = 2
        /\ Last(published).tables = <<>>
        /\ cLastRefresh > 0

-----------------------------------------------------------------------------
(* Properties of the snapshots Load assembles *)

\* the reltuples values pg_class holds for a relation at some version
RawEstimates(name) ==
    {Catalogs[v].est[name] : v \in {w \in Versions : name \in DOMAIN Catalogs[w].est}}

\* C26: in every snapshot the cache has published every table's row
\* estimate is at least 0: it is 0 or a non-negative value pg_class held for
\* that table, and it is 0 for a table whose only estimate is negative.
C26_EstimateNotNegative ==
    \A i \in 1..Len(published) :
        \A k \in 1..Len(published[i].deep) :
            LET t == published[i].deep[k]
            IN  /\ t.RowEstimate >= 0
                /\ t.RowEstimate = published[i].tables[k].RowEstimate
                /\ t.RowEstimate = 0 \/ t.RowEstimate \in RawEstimates(t.Name)
                /\ (\A e \in RawEstimates(t.Name) : e < 0) => t.RowEstimate = 0

\* a published snapshot with the estimate of table a as it is and the
\* negative estimate of table b stored as 0
C26_Witness ==
    /\ Len(published) >= 2
    /\ Len(Last(published).deep) = 2
    /\ Last(published).deep[1].RowEstimate = 5
    /\ Last(published).deep[2].Name = "b"
    /\ Last(published).deep[2].RowEstimate = 0

\* the elements of a sequence
Elems(seq) == {seq[i] : i \in 1..Len(seq)}

\* snapshot is what the answers names, columns, pks and fks assemble to: one
\* table per name in the order of names; its columns those of its name, in
\* their order, each marked exactly if the name's key set has it; its foreign
\* keys those of its name
AssembledFrom(snapshot, names, columns, pks, fks) ==
    /\ Len(snapshot) = Len(names)
    /\ \A k \in 1..Len(names) :
           LET t == snapshot[k]
               cols == IF names[k] \in DOMAIN columns THEN columns[names[k]] ELSE <<>>
               keys == IF names[k] \in DOMAIN pks THEN Elems(pks[names[k]]) ELSE {}
           IN  /\ t.Name = names[k]
               /\ Len(t.Columns) = Len(cols)
               /\ \A c \in 1..Len(cols) :
                      /\ t.Columns[c].Name = cols[c].Name
                      /\ t.Columns[c].Type = cols[c].Type
                      /\ t.Columns[c].Nullable = cols[c].Nullable
                      /\ t.Columns[c].Comment = cols[c].Comment
                      /\ t.Columns[c].IsPK <=> cols[c].Name \in keys
               /\ t.ForeignKeys = (IF names[k] \in DOMAIN fks THEN fks[names[k]] ELSE <<>>)

\* C27: every snapshot a successful Load published has exactly one table for
\* each name the table-names query returned, in that order, with the columns
\* the columns query returned for the name, in their order, a column marked
\* as primary key if and only if the primary-keys query returned it for that
\* table; what the queries returned for other names is not in the snapshot.
C27_AssembledAsIntrospected ==
    \A i \in 2..Len(published) :
        /\ \E vs \in [1..4 -> Versions] :
               /\ \A k \in 1..3 : vs[k] <= vs[k + 1]
               /\ AssembledFrom(published[i].deep, Catalogs[vs[1]].names,
                                Catalogs[vs[2]].columns, Catalogs[vs[3]].pks,
                                Catalogs[vs[4]].fks)
        /\ \A k \in 1..Len(published[i].deep) :
               /\ published[i].deep[k].Name # "z"
               /\ \A j \in 1..Len(published[i].deep) :
                      published[i].deep[j].Name = published[i].deep[k].Name => j = k

\* a snapshot with the names of one catalog version and the columns and keys
\* of the next: table a with both columns marked, table b without columns
C27_Witness ==
    /\ Len(published) >= 2
    /\ Len(Last(published).deep) = 2
    /\ Len(Last(published).deep[1].Columns) = 2
    /\ Last(published).deep[1].Columns[2].Name = "y"
    /\ Last(published).deep[1].Columns[2].IsPK
    /\ Last(published).deep[2].Name = "b"
    /\ Last(published).deep[2].Columns = <<>>

-----------------------------------------------------------------------------
(* Properties of the order of replacements *)

LoadIds == 1..MaxLoads

\* Load call id is at one of the given places
LoadAt(id, places) == \E l \in Loaders : lloc[l].id = id /\ lpc[l] \in places

\* call b has not run its first query and call a has replaced tables and
\* timestamp
StartsAfterReplacement(a, b) ==
    /\ LoadAt(b, {"introspect"})
    /\ \E l \in Loaders :
           /\ lloc[l].id = a
           /\ lpc[l] \in {"unlock", "returned"}
           /\ lloc[l].failed \notin FatalQueries

\* both calls have returned nil and the callers have not gone on yet
BothReturned(a, b) ==
    \E la, lb \in Loaders :
        /\ lloc[la].id = a /\ lpc[la] = "returned" /\ lloc[la].ret = nil
        /\ lloc[lb].id = b /\ lpc[lb] = "returned" /\ lloc[lb].ret = nil

\* the cache holds what call id assembled
HoldsTablesOf(id) == Last(published).by = id /\ cTables = Last(published).tables

\* C28 as stated: if Load b starts its introspection after Load a has
\* finished its own and both succeed, the cache holds the tables of b once
\* both have returned.
C28_Original ==
    \A la, lb \in Loaders :
        (/\ lpc[la] = "returned" /\ lloc[la].ret = nil
         /\ lpc[lb] = "returned" /\ lloc[lb].ret = nil
         /\ lloc[la].id \in lloc[lb].after) =>
            HoldsTablesOf(lloc[lb].id)

\* the place of call id's replacement in the history of replacements, 0 if
\* it has not replaced the tables
ReplacementOf(id) ==
    IF PublishedBy(id) = {} THEN 0 ELSE CHOOSE i \in PublishedBy(id) : TRUE

\* C28: replacements take effect in the order in which the Loads take the
\* lock, not in the order of their introspections. A Load that starts its
\* introspection after another has completed its replacement replaces later;
\* replacements are never undone or reordered; and once two successful Loads
\* have both returned, the cache holds the tables of the one that replaced
\* later, unless a third Load has replaced them since.
C28_NewerAfterReplacement ==
    /\ [](\A a, b \in LoadIds :
             (a # b /\ StartsAfterReplacement(a, b)) =>
                 ReplacementOf(a) > 0 /\ ReplacementOf(b) = 0)
    /\ [][\A i \in 1..Len(published) :
             /\ i <= Len(published')
             /\ published'[i].by = published[i].by
             /\ published'[i].tables = published[i].tables]_cacheVars
    /\ [](\A a, b \in LoadIds :
             (BothReturned(a, b) /\ ReplacementOf(a) < ReplacementOf(b)) =>
                 /\ ReplacementOf(a) > 0
                 /\ HoldsTablesOf(b) \/ Last(published).by \notin {a, b})

\* both Loads have returned and the cache holds the tables of the second one,
\* which replaced them after the first
C28_Witness ==
    /\ BothReturned(1, 2)
    /\ Len(published) = 3
    /\ published[2].by = 1
    /\ published[3].by = 2
    /\ published[2].deep # published[3].deep
    /\ HoldsTablesOf(2)

-----------------------------------------------------------------------------
(* Properties of the responses of handleSchema and handleSchemaRefresh *)

\* the replacements whose tables a schemaResponse lists
SnapshotsOf(tables) == {i \in 1..Len(published) : published[i].tables = tables}

\* C29: every schemaResponse written by handleSchema or handleSchemaRefresh
\* is of one snapshot: tableCount is the number of tables it lists,
\* lastRefresh is the formatted time of a replacement that stored those
\* tables, and after handleSchemaRefresh's own successful Load the tables are
\* the ones that Load stored.
C29_SchemaResponseOfOneSnapshot ==
    (sh.pc = "done" /\ sh.status = 200) =>
        /\ sh.TableCount = Len(sh.Tables)
        /\ \E i \in SnapshotsOf(sh.Tables) :
               sh.LastRefresh = FormatLastRefresh(published[i].at)
        /\ sh.kind = "refresh" =>
               \E i \in SnapshotsOf(sh.Tables) : published[i].by = sh.load

-----------------------------------------------------------------------------
(* Properties of the count of handleQuery's responses *)

\* C30: in every success response of handleQuery, whatever limit was
\* requested (zero, negative and above 1000 included), count is at least 0,
\* at most 1000 and at most the clamped limit, and when more is TRUE count is
\* the clamped limit exactly.
C30_CountWithinClampedLimit ==
    \A i \in 1..Len(written) :
        (req.kind = "query" /\ written[i].status = 200) =>
            LET r == written[i]
                clamped == clampLimit(req.Limit)
            IN  /\ 0 <= r.Count
                /\ r.Count <= maxLimit
                /\ r.Count <= clamped
                /\ r.More => r.Count = clamped

\* a response cut at the requested limit has been written
C30_Witness ==
    /\ req.kind = "query"
    /\ req.Limit \in 1..maxLimit
    /\ Len(written) = 1
    /\ written[1].status = 200
    /\ written[1].More
    /\ written[1].Count = req.Limit

-----------------------------------------------------------------------------
(* Specifications *)

vars == <<gateVars, handlerVars, cacheVars, genVars, schemaVars>>

Init == InitHandler /\ GateIdle /\ InitCache /\ GenIdle /\ SchemaIdle

Next ==
    \/ HandleQueryBegin
    \/ HandleQueryDispatch
    \/ HandleQueryLoop
    \/ HandleExportBegin
    \/ HandleExportDispatch
    \/ HandleExportLoop
    \/ NextRequest

Spec == Init /\ [][Next]_vars

NextGate == Validate

InitGateSpec == InitGate /\ InitHandler /\ InitCache /\ GenIdle /\ SchemaIdle

SpecGate == InitGateSpec /\ [][NextGate]_vars

InitCacheSpec == InitCache /\ InitHandler /\ GateIdle /\ GenIdle /\ SchemaIdle

NextCache ==
    \/ \E l \in Loaders :
         \/ LoadBegin(l)
         \/ LoadTables(l)
         \/ Lock(l)
         \/ SetTables(l)
         \/ SetLastRefresh(l)
         \/ Unlock(l)
         \/ LoadReturn(l)
    \/ \E r \in Readers :
         \/ ReaderCall(r)
         \/ GetTablesMake(r)
         \/ GetTablesCopy(r)
         \/ ToTextCheck(r)
         \/ ToTextRender(r)
         \/ TableCountRead(r)
         \/ GetLastRefreshRead(r)
         \/ ReaderReturn(r)

SpecCache == InitCacheSpec /\ [][NextCache]_vars

\* the cache of a process started on an empty database
InitNewDbSpec == InitCache /\ GateIdle /\ InitHandler /\ GenIdle /\ SchemaIdle

NextNewDb ==
    \/ \E l \in Loaders :
         \/ LoadBegin(l)
         \/ LoadTablesNewDb(l)
         \/ Lock(l)
         \/ SetTables(l)
         \/ SetLastRefresh(l)
         \/ Unlock(l)
         \/ LoadReturn(l)
    \/ \E r \in Readers :
         \/ ReaderCall(r)
         \/ GetTablesMake(r)
         \/ GetTablesCopy(r)
         \/ ToTextCheck(r)
         \/ ToTextRender(r)
         \/ TableCountRead(r)
         \/ GetLastRefreshRead(r)
         \/ ReaderReturn(r)

SpecNewDb == InitNewDbSpec /\ [][NextNewDb]_vars

InitOrderSpec == InitCache /\ SchemaIdle /\ GateIdle /\ InitHandler /\ GenIdle

NextOrder ==
    \E l \in Loaders :
        \/ LoadBeginAfter(l)
        \/ LoadTables(l)
        \/ Lock(l)
        \/ SetTables(l)
        \/ SetLastRefresh(l)
        \/ Unlock(l)
        \/ LoadReturn(l)

SpecOrder == InitOrderSpec /\ [][NextOrder]_vars

InitSchemaSpec == InitCache /\ SchemaIdle /\ GateIdle /\ InitHandler /\ GenIdle

NextSchema ==
    \/ \E l \in Loaders :
         \/ LoadBegin(l)
         \/ LoadTables(l)
         \/ Lock(l)
         \/ SetTables(l)
         \/ SetLastRefresh(l)
         \/ Unlock(l)
         \/ LoadReturn(l)
         \/ HandleSchemaRefresh(l)
    \/ HandleSchema
    \/ SchemaGetTables
    \/ SchemaTableCount
    \/ SchemaGetLastRefresh
    \/ SchemaNextRequest

SpecSchema == InitSchemaSpec /\ [][NextSchema]_vars

InitGenSpec == InitGen /\ InitHandler /\ GateIdle /\ InitCache /\ SchemaIdle

NextGen ==
    \/ GenBegin
    \/ GenCall
    \/ GenRespond
    \/ GenNextRequest

SpecGen == InitGenSpec /\ [][NextGen]_vars
====
